---------------------------- MODULE Spec2Model ----------------------------
(***************************************************************************)
(* METAR decoder (src/metar.cpp): the tokenizing loop of Metar::parse, the  *)
(* shape predicates and the field sub-parsers.                              *)
(*                                                                          *)
(* A C string is a sequence of one-character strings; a buffer is such a    *)
(* sequence with NUL terminators in it; a pointer is a buffer name and a    *)
(* 1-based offset.  A double is an exact fraction [n, d] in lowest terms.   *)
(***************************************************************************)
EXTENDS Integers, Sequences, FiniteSets, TLC

\* ------------------------------------------------------------------ bounds
\* longest report, in tokens, drawn from the full vocabulary
MaxTokens == 2
\* longest report, in tokens, drawn from the cloud-layer vocabulary
MaxLayerTokens == 4
\* longest report, in tokens, of each of two concurrent callers
MaxConcTokens == 2
\* longest report, in tokens, drawn from the split-visibility vocabulary
MaxLookbackTokens == 3
\* longest report, in tokens, drawn from the weather vocabulary
MaxWxTokens == 3

\* --------------------------------------------------------------- constants
\* INT_MIN
INTEGER_UNDEFINED == -2147483647 - 1
MAX_CLOUD_LAYERS == 3
\* DBL_MAX; [1, 0] is the infinity and [0, 0] the NaN of a division by zero
DOUBLE_UNDEFINED == [n |-> 2, d |-> 0]

NUL == "NUL"
SP == " "
\* the horizontal tab, a whitespace character that is no space
TAB == "TAB"
NULLPTR == [b |-> "null", off |-> 0]
\* the value of a `const char *` that is nullptr, as a string argument
NULLSTR == <<NUL>>

Digits == {"0","1","2","3","4","5","6","7","8","9"}
Alphas == {"A","B","C","D","E","F","G","H","I","J","K","L","M",
           "N","O","P","Q","R","S","T","U","V","W","X","Y","Z"}

WIND_SPEED_KT == <<"K","T">>
WIND_SPEED_MPS == <<"M","P","S">>
WIND_SPEED_KPH == <<"K","P","H">>
VIS_UNITS_M == <<"M">>
VIS_UNITS_SM == <<"S","M">>
sky_conditions == << <<"S","K","C">>, <<"C","L","R">>, <<"N","S","C">>, <<"F","E","W">>, <<"S","C","T">>, <<"B","K","N">>, <<"O","V","C">> >>
NUM_LAYERS == Len(sky_conditions)
cloud_types == << <<"T","C","U">>, <<"C","B">>, <<"A","C","C">> >>
NUM_CLOUDS == Len(cloud_types)

\* ------------------------------------------------------- C library pieces
DigitVal(c) ==
  CASE c = "0" -> 0 [] c = "1" -> 1 [] c = "2" -> 2 [] c = "3" -> 3
    [] c = "4" -> 4 [] c = "5" -> 5 [] c = "6" -> 6 [] c = "7" -> 7
    [] c = "8" -> 8 [] c = "9" -> 9

Drop(s, k) == IF k >= Len(s) THEN << >> ELSE SubSeq(s, k + 1, Len(s))
Take(s, k) == IF k >= Len(s) THEN s ELSE SubSeq(s, 1, k)

\* strncpy(val, str, k); val[k] = '\0'
strncpy(s, k) == Take(s, k)

RECURSIVE DigitRun(_, _)
\* the value of the leading run of digits of s, continuing from acc
DigitRun(s, acc) ==
  IF s # << >> /\ Head(s) \in Digits
    THEN DigitRun(Tail(s), 10 * acc + DigitVal(Head(s)))
    ELSE acc

\* atoi: optional sign, then the leading digits; 0 when there are none
atoi(s) ==
  IF s # << >> /\ Head(s) = "-" THEN 0 - DigitRun(Tail(s), 0)
  ELSE IF s # << >> /\ Head(s) = "+" THEN DigitRun(Tail(s), 0)
  ELSE DigitRun(s, 0)

RECURSIVE GCD(_, _)
GCD(a, b) == IF b = 0 THEN a ELSE GCD(b, a % b)
Abs(x) == IF x < 0 THEN 0 - x ELSE x

\* the double n/d
Rat(n, d) ==
  IF d = 0 THEN [n |-> IF n = 0 THEN 0 ELSE 1, d |-> 0]
  ELSE LET g == GCD(Abs(n), Abs(d)) IN
       IF g = 0 THEN [n |-> 0, d |-> 1]
       ELSE IF d < 0 THEN [n |-> (0 - n) \div g, d |-> (0 - d) \div g]
       ELSE [n |-> n \div g, d |-> d \div g]
RatAdd(x, y) == Rat(x.n * y.d + y.n * x.d, x.d * y.d)
RatDiv(x, y) == Rat(x.n * y.d, x.d * y.n)

\* atof on the tokens the predicates let through: sign and leading digits
atof(s) == Rat(atoi(s), 1)

RECURSIVE strstrFrom(_, _, _)
\* offset (0-based) of the first occurrence of needle in s at or after i,
\* or -1 for nullptr
strstrFrom(s, needle, i) ==
  IF i + Len(needle) > Len(s) THEN -1
  ELSE IF SubSeq(s, i + 1, i + Len(needle)) = needle THEN i
  ELSE strstrFrom(s, needle, i + 1)
strstr(s, needle) == strstrFrom(s, needle, 0)

\* ------------------------------------------------------- pattern matching
match_character(p, c) ==
  CASE p = "#" -> c \in Digits
    [] p = "$" -> c \in Alphas
    [] OTHER   -> p = c

\* match(pattern, str, len): the first len characters, the caller has made
\* sure both hold at least len
matchN(pattern, str, len) ==
  \A i \in 1..len : match_character(pattern[i], str[i])

match(pattern, str) ==
  IF str # NULLSTR /\ Len(pattern) = Len(str)
    THEN matchN(pattern, str, Len(pattern))
    ELSE FALSE

starts_with(pattern, str) ==
  IF str # NULLSTR /\ Len(pattern) <= Len(str)
    THEN matchN(pattern, str, Len(pattern))
    ELSE FALSE

\* ------------------------------------------------------- shape predicates
is_metar(str) == str = <<"M","E","T","A","R">> \/ str = <<"S","P","E","C","I">>

is_icao(str) == match(<<"$","$","$","$">>, str)

is_ot(str) == match(<<"#","#","#","#","#","#","Z">>, str)

is_wind(str) ==
  \/ starts_with(<<"#","#","#","#","#">>, str)
  \/ starts_with(<<"#","#","#","#","#","G","#","#">>, str)
  \/ starts_with(<<"#","#","#","#","#","#","G","#","#","#">>, str)
  \/ starts_with(<<"V","R","B">>, str)

is_wind_var(str) == match(<<"#","#","#","V","#","#","#">>, str)

is_vis(str) ==
  IF str = <<"C","A","V","O","K">> THEN TRUE
  ELSE LET p == strstr(str, VIS_UNITS_SM)
           len == Len(str) IN
       IF p = -1 THEN match(<<"#","#","#","#">>, str)
       ELSE IF len - p = 2
         THEN /\ (str[1] \in Digits \/ str[1] = "M")
              /\ \A i \in 2..(len - 2) : str[i] \in Digits \/ str[i] = "/"
         ELSE FALSE

is_cloud_layer(str) ==
  \E i \in 1..NUM_LAYERS : starts_with(sky_conditions[i], str)

is_vert_vis(str) == match(<<"V","V","#","#","#">>, str)

is_temp(str) ==
  \/ match(<<"#","#","/","#","#">>, str)
  \/ match(<<"#","#","/","M","#","#">>, str)
  \/ match(<<"M","#","#","/","M","#","#">>, str)
  \/ match(<<"#","#","/">>, str)
  \/ match(<<"M","#","#","/">>, str)

is_altA(str) == match(<<"A","#","#","#","#">>, str)

is_altQ(str) == match(<<"Q","#","#","#","#">>, str)

is_slp(str) == match(<<"S","L","P","#","#","#">>, str)

is_tempNA(str) == match(<<"T","#","#","#","#","#","#","#","#">>, str)

\* ------------------------------------------------------------ Metar object
\* SkyConditionImpl(c, a, t)
SkyConditionImpl(c, a, t) == [_cond |-> c, _alt |-> a, _type |-> t]
SkyHasAltitude(l) == l._alt # INTEGER_UNDEFINED
SkyHasCloudType(l) == l._type # NULLSTR

\* mutant: the temperature initialised to 0 instead of the undefined value
MetarCtor_temp_zero ==
  [ _metar |-> << >>, _icao |-> << >>,
    _day |-> INTEGER_UNDEFINED, _hour |-> INTEGER_UNDEFINED,
    _min |-> INTEGER_UNDEFINED,
    _wind_dir |-> INTEGER_UNDEFINED, _wind_spd |-> INTEGER_UNDEFINED,
    _gust |-> INTEGER_UNDEFINED, _wind_speed_units |-> NULLSTR,
    _min_wind_dir |-> INTEGER_UNDEFINED, _max_wind_dir |-> INTEGER_UNDEFINED,
    _vrb |-> FALSE,
    _vis |-> DOUBLE_UNDEFINED, _vis_units |-> NULLSTR, _vis_lt |-> FALSE,
    _cavok |-> FALSE,
    _num_layers |-> 0, _layers |-> << >>,
    _vert_vis |-> INTEGER_UNDEFINED,
    _temp |-> 0, _dew |-> INTEGER_UNDEFINED,
    _altimeterA |-> DOUBLE_UNDEFINED, _altimeterQ |-> INTEGER_UNDEFINED,
    _slp |-> DOUBLE_UNDEFINED,
    _ftemp |-> DOUBLE_UNDEFINED, _fdew |-> DOUBLE_UNDEFINED,
    _previous_element |-> NULLPTR ]

\* Metar::Metar()
MetarCtor ==
  [ _metar |-> << >>, _icao |-> << >>,
    _day |-> INTEGER_UNDEFINED, _hour |-> INTEGER_UNDEFINED,
    _min |-> INTEGER_UNDEFINED,
    _wind_dir |-> INTEGER_UNDEFINED, _wind_spd |-> INTEGER_UNDEFINED,
    _gust |-> INTEGER_UNDEFINED, _wind_speed_units |-> NULLSTR,
    _min_wind_dir |-> INTEGER_UNDEFINED, _max_wind_dir |-> INTEGER_UNDEFINED,
    _vrb |-> FALSE,
    _vis |-> DOUBLE_UNDEFINED, _vis_units |-> NULLSTR, _vis_lt |-> FALSE,
    _cavok |-> FALSE,
    _num_layers |-> 0, _layers |-> << >>,
    _vert_vis |-> INTEGER_UNDEFINED,
    _temp |-> INTEGER_UNDEFINED, _dew |-> INTEGER_UNDEFINED,
    _altimeterA |-> DOUBLE_UNDEFINED, _altimeterQ |-> INTEGER_UNDEFINED,
    _slp |-> DOUBLE_UNDEFINED,
    _ftemp |-> DOUBLE_UNDEFINED, _fdew |-> DOUBLE_UNDEFINED,
    _previous_element |-> NULLPTR ]

\* the presence predicates and accessors of the class declaration
hasMETAR(m) == m._metar # << >>
hasICAO(m) == m._icao # << >>
hasDay(m) == m._day # INTEGER_UNDEFINED
hasHour(m) == m._hour # INTEGER_UNDEFINED
hasMinute(m) == m._min # INTEGER_UNDEFINED
hasWindDirection(m) == m._wind_dir # INTEGER_UNDEFINED
hasWindSpeed(m) == m._wind_spd # INTEGER_UNDEFINED
hasWindGust(m) == m._gust # INTEGER_UNDEFINED
hasWindSpeedUnits(m) == m._wind_speed_units # NULLSTR
hasMinWindDirection(m) == m._min_wind_dir # INTEGER_UNDEFINED
hasMaxWindDirection(m) == m._max_wind_dir # INTEGER_UNDEFINED
hasVisibility(m) == m._vis # DOUBLE_UNDEFINED
hasVisibilityUnits(m) == m._vis_units # NULLSTR
isCAVOK(m) == m._cavok
hasVerticalVisibility(m) == m._vert_vis # INTEGER_UNDEFINED
hasTemperature(m) == m._temp # INTEGER_UNDEFINED
hasDewPoint(m) == m._dew # INTEGER_UNDEFINED
hasAltimeterA(m) == m._altimeterA # DOUBLE_UNDEFINED
hasAltimeterQ(m) == m._altimeterQ # INTEGER_UNDEFINED
hasSeaLevelPressure(m) == m._slp # DOUBLE_UNDEFINED
hasTemperatureNA(m) == m._ftemp # DOUBLE_UNDEFINED
hasDewPointNA(m) == m._fdew # DOUBLE_UNDEFINED
NumCloudLayers(m) == m._num_layers
\* the nullptr Layer(idx) returns past the count
NO_LAYER == SkyConditionImpl(NULLSTR, INTEGER_UNDEFINED, NULLSTR)
\* Layer(idx), 0-based
Layer(m, idx) == IF idx < m._num_layers THEN m._layers[idx + 1] ELSE NO_LAYER

\* ------------------------------------------------------------- sub-parsers
parse_metar(m, str) == [m EXCEPT !._metar = str]

parse_icao(m, str) == [m EXCEPT !._icao = str]

\* char val[3]; ... strcpy(val, str + 4): the copy and its terminator need
\* Len(str) - 4 + 1 bytes
parse_ot_overflows(str) == Len(Drop(str, 4)) + 1 > 3

parse_ot(m, str) ==
  [m EXCEPT !._day = atoi(strncpy(str, 2)),
            !._hour = atoi(strncpy(Drop(str, 2), 2)),
            !._min = atoi(Drop(str, 4))]

\* mutant: the speed read as two characters, as if it never had three digits
parse_wind_speed_two_chars(m, str) ==
  LET units == IF strstr(str, WIND_SPEED_MPS) # -1 THEN WIND_SPEED_MPS
               ELSE IF strstr(str, WIND_SPEED_KPH) # -1 THEN WIND_SPEED_KPH
               ELSE WIND_SPEED_KT
      novrb == strstr(str, <<"V","R","B">>) = -1
      g == strstr(str, <<"G">>)
  IN [m EXCEPT
        !._wind_speed_units = units,
        !._wind_dir = IF novrb THEN atoi(strncpy(str, 3)) ELSE @,
        !._vrb = IF novrb THEN @ ELSE TRUE,
        !._wind_spd = atoi(strncpy(Drop(str, 3), 2)),
        !._gust = IF g # -1 THEN atoi(strncpy(Drop(str, g + 1), 3)) ELSE @]

parse_wind(m, str) ==
  LET units == IF strstr(str, WIND_SPEED_MPS) # -1 THEN WIND_SPEED_MPS
               ELSE IF strstr(str, WIND_SPEED_KPH) # -1 THEN WIND_SPEED_KPH
               ELSE WIND_SPEED_KT
      novrb == strstr(str, <<"V","R","B">>) = -1
      g == strstr(str, <<"G">>)
  IN [m EXCEPT
        !._wind_speed_units = units,
        !._wind_dir = IF novrb THEN atoi(strncpy(str, 3)) ELSE @,
        !._vrb = IF novrb THEN @ ELSE TRUE,
        !._wind_spd = atoi(strncpy(Drop(str, 3), 3)),
        !._gust = IF g # -1 THEN atoi(strncpy(Drop(str, g + 1), 3)) ELSE @]

parse_wind_var(m, str) ==
  [m EXCEPT !._min_wind_dir = atoi(strncpy(str, 3)),
            !._max_wind_dir = atoi(Drop(str, 4))]

\* char val[4] holds the numerator, then the denominator, each with its
\* terminator written at val[len]
parse_vis_overflows(str) ==
  /\ str # <<"C","A","V","O","K">>
  /\ strstr(str, VIS_UNITS_SM) # -1
  /\ strstr(str, <<"/">>) # -1
  /\ \/ strstr(str, <<"/">>) > 3
     \/ strstr(str, VIS_UNITS_SM) - strstr(str, <<"/">>) > 3

\* mutant: the lookback taken for any previous token that starts with a digit
parse_vis_lookback_any_number(m, str, prev) ==
  IF str = <<"C","A","V","O","K">> THEN [m EXCEPT !._cavok = TRUE]
  ELSE LET u == strstr(str, VIS_UNITS_SM) IN
    IF u = -1
      THEN [m EXCEPT !._vis = atof(str), !._vis_units = VIS_UNITS_M]
    ELSE LET p == strstr(str, <<"/">>) IN
      IF p = -1
        THEN [m EXCEPT !._vis = atof(str), !._vis_units = VIS_UNITS_SM]
      ELSE
        LET len == p
            lt == str[1] = "M"
            numerator == IF lt THEN atof(strncpy(Drop(str, 1), len))
                         ELSE atof(strncpy(str, len))
            denominator == atof(strncpy(Drop(str, p + 1), u - p))
            frac == RatDiv(numerator, denominator)
        IN [m EXCEPT
              !._vis_lt = IF lt THEN TRUE ELSE @,
              !._vis = IF starts_with(<<"#">>, prev) THEN RatAdd(frac, atof(prev))
                       ELSE frac,
              !._vis_units = VIS_UNITS_SM]

parse_vis(m, str, prev) ==
  IF str = <<"C","A","V","O","K">> THEN [m EXCEPT !._cavok = TRUE]
  ELSE LET u == strstr(str, VIS_UNITS_SM) IN
    IF u = -1
      THEN [m EXCEPT !._vis = atof(str), !._vis_units = VIS_UNITS_M]
    ELSE LET p == strstr(str, <<"/">>) IN
      IF p = -1
        THEN [m EXCEPT !._vis = atof(str), !._vis_units = VIS_UNITS_SM]
      ELSE
        LET len == p
            lt == str[1] = "M"
            numerator == IF lt THEN atof(strncpy(Drop(str, 1), len))
                         ELSE atof(strncpy(str, len))
            denominator == atof(strncpy(Drop(str, p + 1), u - p))
            frac == RatDiv(numerator, denominator)
        IN [m EXCEPT
              !._vis_lt = IF lt THEN TRUE ELSE @,
              !._vis = IF match(<<"#">>, prev) THEN RatAdd(frac, atof(prev))
                       ELSE frac,
              !._vis_units = VIS_UNITS_SM]

\* mutant: the suffix kept as the cloud type without the comparison with
\* cloud_types
parse_cloud_layer_any_suffix(m, str, tail6) ==
  LET i == CHOOSE k \in 1..NUM_LAYERS : starts_with(sky_conditions[k], str)
      layer ==
        IF Len(str) = 3
          THEN SkyConditionImpl(sky_conditions[i], INTEGER_UNDEFINED, NULLSTR)
        ELSE IF tail6 = << >>
          THEN SkyConditionImpl(sky_conditions[i],
                                atoi(Drop(str, 3)) * 100, NULLSTR)
        ELSE
          SkyConditionImpl(sky_conditions[i], atoi(Drop(str, 3)) * 100, tail6)
  IN [m EXCEPT !._layers = Append(@, layer), !._num_layers = @ + 1]

\* mutant: no case for the cover code alone, its altitude read from nothing
parse_cloud_layer_no_bare_case(m, str, tail6) ==
  LET i == CHOOSE k \in 1..NUM_LAYERS : starts_with(sky_conditions[k], str)
      layer ==
        IF tail6 = << >>
          THEN SkyConditionImpl(sky_conditions[i],
                                atoi(Drop(str, 3)) * 100, NULLSTR)
        ELSE
          SkyConditionImpl(sky_conditions[i], atoi(Drop(str, 3)) * 100,
            IF \E j \in 1..NUM_CLOUDS : tail6 = cloud_types[j]
              THEN tail6 ELSE NULLSTR)
  IN [m EXCEPT !._layers = Append(@, layer), !._num_layers = @ + 1]

\* tail6 is the C string found at str + 6: the rest of the token when it has
\* six characters or more, and whatever lies behind its terminator otherwise
parse_cloud_layer(m, str, tail6) ==
  LET i == CHOOSE k \in 1..NUM_LAYERS : starts_with(sky_conditions[k], str)
      layer ==
        IF Len(str) = 3
          THEN SkyConditionImpl(sky_conditions[i], INTEGER_UNDEFINED, NULLSTR)
        ELSE IF tail6 = << >>
          THEN SkyConditionImpl(sky_conditions[i],
                                atoi(Drop(str, 3)) * 100, NULLSTR)
        ELSE
          SkyConditionImpl(sky_conditions[i], atoi(Drop(str, 3)) * 100,
            IF \E j \in 1..NUM_CLOUDS : tail6 = cloud_types[j]
              THEN tail6 ELSE NULLSTR)
  IN [m EXCEPT !._layers = Append(@, layer), !._num_layers = @ + 1]

parse_vert_vis(m, str) == [m EXCEPT !._vert_vis = atoi(Drop(str, 2)) * 100]

temp(val) ==
  IF val # << >> /\ Head(val) = "M" THEN atoi(<<"-">> \o Tail(val))
  ELSE atoi(val)

\* mutant: the dew point assigned without the test for an empty right side
parse_temp_always_dew(m, str) ==
  LET p == strstr(str, <<"/">>) IN
  [m EXCEPT !._temp = temp(strncpy(str, p)),
            !._dew = temp(Drop(str, p + 1))]

parse_temp(m, str) ==
  LET p == strstr(str, <<"/">>) IN
  [m EXCEPT !._temp = temp(strncpy(str, p)),
            !._dew = IF Drop(str, p + 1) # << >> THEN temp(Drop(str, p + 1))
                     ELSE @]

\* mutant: the division by 100 left out
parse_alt_unscaled(m, str) ==
  LET val == atoi(Drop(str, 1)) IN
  IF str[1] = "Q" THEN [m EXCEPT !._altimeterQ = val]
  ELSE [m EXCEPT !._altimeterA = Rat(val, 1)]

parse_alt(m, str) ==
  LET val == atoi(Drop(str, 1)) IN
  IF str[1] = "Q" THEN [m EXCEPT !._altimeterQ = val]
  ELSE [m EXCEPT !._altimeterA = Rat(val, 100)]

\* mutant: values of 500 and more read as pressures below 1000 hPa
parse_slp_below_1000(m, str) ==
  [m EXCEPT !._slp = RatAdd(RatDiv(atof(Drop(str, 3)), Rat(10, 1)),
                            IF atoi(Drop(str, 3)) >= 500 THEN Rat(900, 1)
                            ELSE Rat(1000, 1))]

parse_slp(m, str) ==
  [m EXCEPT !._slp = RatAdd(RatDiv(atof(Drop(str, 3)), Rat(10, 1)),
                            Rat(1000, 1))]

\* mutant: the sign digit dropped without negating the value
tempNA_sign_dropped(val) == RatDiv(atof(Tail(val)), Rat(10, 1))

tempNA(val) ==
  RatDiv(IF val # << >> /\ Head(val) = "1" THEN atof(<<"-">> \o Tail(val))
         ELSE atof(val),
         Rat(10, 1))

parse_tempNA(m, str) ==
  [m EXCEPT !._ftemp = tempNA(strncpy(Drop(str, 1), 4)),
            !._fdew = tempNA(Drop(str, 5))]

\* --------------------------------------------------------- the dispatcher
\* mutant: the wind branch without its already-populated guard
dispatch_wind_unguarded(m, str) ==
  IF ~hasMETAR(m) /\ is_metar(str) THEN "metar"
  ELSE IF ~hasICAO(m) /\ is_icao(str) THEN "icao"
  ELSE IF ~hasMinute(m) /\ is_ot(str) THEN "ot"
  ELSE IF is_wind(str) THEN "wind"
  ELSE IF ~hasMinWindDirection(m) /\ is_wind_var(str) THEN "wind_var"
  ELSE IF ~hasVisibility(m) /\ ~m._cavok /\ is_vis(str) THEN "vis"
  ELSE IF m._num_layers < MAX_CLOUD_LAYERS /\ is_cloud_layer(str)
    THEN "cloud_layer"
  ELSE IF ~hasVerticalVisibility(m) /\ is_vert_vis(str) THEN "vert_vis"
  ELSE IF ~hasTemperature(m) /\ is_temp(str) THEN "temp"
  ELSE IF ~hasAltimeterA(m) /\ is_altA(str) THEN "altA"
  ELSE IF ~hasAltimeterQ(m) /\ is_altQ(str) THEN "altQ"
  ELSE IF ~hasSeaLevelPressure(m) /\ is_slp(str) THEN "slp"
  ELSE IF ~hasTemperatureNA(m) /\ is_tempNA(str) THEN "tempNA"
  ELSE "none"

\* mutant: the wind branch tested before the observation-time branch
dispatch_wind_before_ot(m, str) ==
  IF ~hasMETAR(m) /\ is_metar(str) THEN "metar"
  ELSE IF ~hasICAO(m) /\ is_icao(str) THEN "icao"
  ELSE IF ~hasWindSpeed(m) /\ is_wind(str) THEN "wind"
  ELSE IF ~hasMinute(m) /\ is_ot(str) THEN "ot"
  ELSE IF ~hasMinWindDirection(m) /\ is_wind_var(str) THEN "wind_var"
  ELSE IF ~hasVisibility(m) /\ ~m._cavok /\ is_vis(str) THEN "vis"
  ELSE IF m._num_layers < MAX_CLOUD_LAYERS /\ is_cloud_layer(str)
    THEN "cloud_layer"
  ELSE IF ~hasVerticalVisibility(m) /\ is_vert_vis(str) THEN "vert_vis"
  ELSE IF ~hasTemperature(m) /\ is_temp(str) THEN "temp"
  ELSE IF ~hasAltimeterA(m) /\ is_altA(str) THEN "altA"
  ELSE IF ~hasAltimeterQ(m) /\ is_altQ(str) THEN "altQ"
  ELSE IF ~hasSeaLevelPressure(m) /\ is_slp(str) THEN "slp"
  ELSE IF ~hasTemperatureNA(m) /\ is_tempNA(str) THEN "tempNA"
  ELSE "none"

\* mutant: the layer cap tested with <= instead of <
dispatch_layers_off_by_one(m, str) ==
  IF ~hasMETAR(m) /\ is_metar(str) THEN "metar"
  ELSE IF ~hasICAO(m) /\ is_icao(str) THEN "icao"
  ELSE IF ~hasMinute(m) /\ is_ot(str) THEN "ot"
  ELSE IF ~hasWindSpeed(m) /\ is_wind(str) THEN "wind"
  ELSE IF ~hasMinWindDirection(m) /\ is_wind_var(str) THEN "wind_var"
  ELSE IF ~hasVisibility(m) /\ ~m._cavok /\ is_vis(str) THEN "vis"
  ELSE IF m._num_layers <= MAX_CLOUD_LAYERS /\ is_cloud_layer(str)
    THEN "cloud_layer"
  ELSE IF ~hasVerticalVisibility(m) /\ is_vert_vis(str) THEN "vert_vis"
  ELSE IF ~hasTemperature(m) /\ is_temp(str) THEN "temp"
  ELSE IF ~hasAltimeterA(m) /\ is_altA(str) THEN "altA"
  ELSE IF ~hasAltimeterQ(m) /\ is_altQ(str) THEN "altQ"
  ELSE IF ~hasSeaLevelPressure(m) /\ is_slp(str) THEN "slp"
  ELSE IF ~hasTemperatureNA(m) /\ is_tempNA(str) THEN "tempNA"
  ELSE "none"

\* mutant: the visibility branch without the CAVOK guard
dispatch_cavok_unguarded(m, str) ==
  IF ~hasMETAR(m) /\ is_metar(str) THEN "metar"
  ELSE IF ~hasICAO(m) /\ is_icao(str) THEN "icao"
  ELSE IF ~hasMinute(m) /\ is_ot(str) THEN "ot"
  ELSE IF ~hasWindSpeed(m) /\ is_wind(str) THEN "wind"
  ELSE IF ~hasMinWindDirection(m) /\ is_wind_var(str) THEN "wind_var"
  ELSE IF ~hasVisibility(m) /\ is_vis(str) THEN "vis"
  ELSE IF m._num_layers < MAX_CLOUD_LAYERS /\ is_cloud_layer(str)
    THEN "cloud_layer"
  ELSE IF ~hasVerticalVisibility(m) /\ is_vert_vis(str) THEN "vert_vis"
  ELSE IF ~hasTemperature(m) /\ is_temp(str) THEN "temp"
  ELSE IF ~hasAltimeterA(m) /\ is_altA(str) THEN "altA"
  ELSE IF ~hasAltimeterQ(m) /\ is_altQ(str) THEN "altQ"
  ELSE IF ~hasSeaLevelPressure(m) /\ is_slp(str) THEN "slp"
  ELSE IF ~hasTemperatureNA(m) /\ is_tempNA(str) THEN "tempNA"
  ELSE "none"

\* mutant: the temperature branch without its already-populated guard
dispatch_temp_unguarded(m, str) ==
  IF ~hasMETAR(m) /\ is_metar(str) THEN "metar"
  ELSE IF ~hasICAO(m) /\ is_icao(str) THEN "icao"
  ELSE IF ~hasMinute(m) /\ is_ot(str) THEN "ot"
  ELSE IF ~hasWindSpeed(m) /\ is_wind(str) THEN "wind"
  ELSE IF ~hasMinWindDirection(m) /\ is_wind_var(str) THEN "wind_var"
  ELSE IF ~hasVisibility(m) /\ ~m._cavok /\ is_vis(str) THEN "vis"
  ELSE IF m._num_layers < MAX_CLOUD_LAYERS /\ is_cloud_layer(str)
    THEN "cloud_layer"
  ELSE IF ~hasVerticalVisibility(m) /\ is_vert_vis(str) THEN "vert_vis"
  ELSE IF is_temp(str) THEN "temp"
  ELSE IF ~hasAltimeterA(m) /\ is_altA(str) THEN "altA"
  ELSE IF ~hasAltimeterQ(m) /\ is_altQ(str) THEN "altQ"
  ELSE IF ~hasSeaLevelPressure(m) /\ is_slp(str) THEN "slp"
  ELSE IF ~hasTemperatureNA(m) /\ is_tempNA(str) THEN "tempNA"
  ELSE "none"

\* mutant: the ICAO branch without its already-populated guard
dispatch_icao_unguarded(m, str) ==
  IF ~hasMETAR(m) /\ is_metar(str) THEN "metar"
  ELSE IF is_icao(str) THEN "icao"
  ELSE IF ~hasMinute(m) /\ is_ot(str) THEN "ot"
  ELSE IF ~hasWindSpeed(m) /\ is_wind(str) THEN "wind"
  ELSE IF ~hasMinWindDirection(m) /\ is_wind_var(str) THEN "wind_var"
  ELSE IF ~hasVisibility(m) /\ ~m._cavok /\ is_vis(str) THEN "vis"
  ELSE IF m._num_layers < MAX_CLOUD_LAYERS /\ is_cloud_layer(str)
    THEN "cloud_layer"
  ELSE IF ~hasVerticalVisibility(m) /\ is_vert_vis(str) THEN "vert_vis"
  ELSE IF ~hasTemperature(m) /\ is_temp(str) THEN "temp"
  ELSE IF ~hasAltimeterA(m) /\ is_altA(str) THEN "altA"
  ELSE IF ~hasAltimeterQ(m) /\ is_altQ(str) THEN "altQ"
  ELSE IF ~hasSeaLevelPressure(m) /\ is_slp(str) THEN "slp"
  ELSE IF ~hasTemperatureNA(m) /\ is_tempNA(str) THEN "tempNA"
  ELSE "none"

\* mutant: the chain without the two branches of the remark groups
dispatch_no_remark_groups(m, str) ==
  IF ~hasMETAR(m) /\ is_metar(str) THEN "metar"
  ELSE IF ~hasICAO(m) /\ is_icao(str) THEN "icao"
  ELSE IF ~hasMinute(m) /\ is_ot(str) THEN "ot"
  ELSE IF ~hasWindSpeed(m) /\ is_wind(str) THEN "wind"
  ELSE IF ~hasMinWindDirection(m) /\ is_wind_var(str) THEN "wind_var"
  ELSE IF ~hasVisibility(m) /\ ~m._cavok /\ is_vis(str) THEN "vis"
  ELSE IF m._num_layers < MAX_CLOUD_LAYERS /\ is_cloud_layer(str)
    THEN "cloud_layer"
  ELSE IF ~hasVerticalVisibility(m) /\ is_vert_vis(str) THEN "vert_vis"
  ELSE IF ~hasTemperature(m) /\ is_temp(str) THEN "temp"
  ELSE IF ~hasAltimeterA(m) /\ is_altA(str) THEN "altA"
  ELSE IF ~hasAltimeterQ(m) /\ is_altQ(str) THEN "altQ"
  ELSE "none"

\* the branch of the if / else-if chain of Metar::parse that takes token str
dispatch(m, str) ==
  IF ~hasMETAR(m) /\ is_metar(str) THEN "metar"
  ELSE IF ~hasICAO(m) /\ is_icao(str) THEN "icao"
  ELSE IF ~hasMinute(m) /\ is_ot(str) THEN "ot"
  ELSE IF ~hasWindSpeed(m) /\ is_wind(str) THEN "wind"
  ELSE IF ~hasMinWindDirection(m) /\ is_wind_var(str) THEN "wind_var"
  ELSE IF ~hasVisibility(m) /\ ~m._cavok /\ is_vis(str) THEN "vis"
  ELSE IF m._num_layers < MAX_CLOUD_LAYERS /\ is_cloud_layer(str)
    THEN "cloud_layer"
  ELSE IF ~hasVerticalVisibility(m) /\ is_vert_vis(str) THEN "vert_vis"
  ELSE IF ~hasTemperature(m) /\ is_temp(str) THEN "temp"
  ELSE IF ~hasAltimeterA(m) /\ is_altA(str) THEN "altA"
  ELSE IF ~hasAltimeterQ(m) /\ is_altQ(str) THEN "altQ"
  ELSE IF ~hasSeaLevelPressure(m) /\ is_slp(str) THEN "slp"
  ELSE IF ~hasTemperatureNA(m) /\ is_tempNA(str) THEN "tempNA"
  ELSE "none"

\* the sub-parser call of branch br
run_parser(m, br, str, prev, tail6) ==
  CASE br = "metar"       -> parse_metar(m, str)
    [] br = "icao"        -> parse_icao(m, str)
    [] br = "ot"          -> parse_ot(m, str)
    [] br = "wind"        -> parse_wind(m, str)
    [] br = "wind_var"    -> parse_wind_var(m, str)
    [] br = "vis"         -> parse_vis(m, str, prev)
    [] br = "cloud_layer" -> parse_cloud_layer(m, str, tail6)
    [] br = "vert_vis"    -> parse_vert_vis(m, str)
    [] br = "temp"        -> parse_temp(m, str)
    [] br = "altA"        -> parse_alt(m, str)
    [] br = "altQ"        -> parse_alt(m, str)
    [] br = "slp"         -> parse_slp(m, str)
    [] br = "tempNA"      -> parse_tempNA(m, str)
    [] OTHER              -> m

\* whether the sub-parser of branch br writes past a local array on str
overflows(br, str) ==
  \/ br = "ot" /\ parse_ot_overflows(str)
  \/ br = "vis" /\ parse_vis_overflows(str)

\* ------------------------------------------------------------------ inputs
Vocabulary ==
  { <<"M","E","T","A","R">>, <<"S","P","E","C","I">>, <<"K","S","T","L">>, <<"E","G","L","L">>, <<"2","3","1","7","5","1","Z">>, <<"0","4","1","6","0","0","Z">>,
    <<"2","7","0","0","9","K","T">>, <<"V","R","B","0","5","G","1","2","K","T">>, <<"1","2","0","1","2","M","P","S">>, <<"0","9","0","V","1","5","0">>, <<"1","8","0","V","2","4","0">>,
    <<"1","0","S","M">>, <<"9","9","9","9">>, <<"C","A","V","O","K">>, <<"1","/","2","S","M">>, <<"M","1","/","4","S","M">>, <<"2">>,
    <<"O","V","C","0","1","5">>, <<"F","E","W","0","0","4","T","C","U">>, <<"C","L","R">>, <<"V","V","0","0","2">>, <<"V","V","1","0","5">>,
    <<"0","9","/","0","6">>, <<"M","1","4","/","M","1","5">>, <<"1","5","/">>, <<"A","3","0","2","9">>, <<"Q","1","0","2","0">>, <<"A","3","0","0","6">>, <<"Q","0","9","9","8">>,
    <<"S","L","P","2","6","0">>, <<"S","L","P","1","7","7">>, <<"T","0","0","9","4","0","0","6","1">>, <<"T","1","0","1","7","1","0","1","8">>, <<"R","M","K">>, <<"1","0","1","0","0">> }

LayerVocabulary == { <<"O","V","C","0","1","5">>, <<"F","E","W","0","0","4","T","C","U">>, <<"C","L","R">>, <<"B","K","N","0","2","2","C","B">>, <<"V","V","0","0","2">> }

ConcVocabulary == { <<"K","S","T","L">>, <<"1","0","S","M">>, <<"2","3","1","7","5","1","Z">> }

\* the sequences over V of length 0..k
SeqsUpTo(V, k) == UNION { [1..j -> V] : j \in 0..k }

RECURSIVE Join(_)
\* the tokens separated by single spaces
Join(toks) ==
  IF toks = << >> THEN << >>
  ELSE IF Len(toks) = 1 THEN toks[1]
  ELSE toks[1] \o <<SP>> \o Join(Tail(toks))

\* further reports: leading, trailing and repeated separators, the report of
\* test real_METAR_1, malformed tokens that pass a shape predicate, and
\* reports with a tab between two groups
SampleInputs ==
  { <<>>, <<" ">>, <<" ","K","S","T","L">>, <<"K","S","T","L"," ">>, <<"K","S","T","L"," "," ","1","0","S","M">>, <<" "," ","2"," "," ","1","/","2","S","M"," "," ">>,
    <<"K","S","T","L"," ","2","3","1","7","5","1","Z"," ","2","7","0","0","9","K","T"," ","1","0","S","M"," ","O","V","C","0","1","5"," ","0","9","/","0","6"," ","A","3","0","2","9"," ","R","M","K"," ","A","O","2"," ","S","L","P","2","6","0"," ","T","0","0","9","4","0","0","6","1"," ","1","0","1","0","0"," ","2","0","0","7","8"," ","5","3","0","0","2">>,
    <<"O","V","C","0","1","5"," ","F","E","W","0">>, <<"F","E","W","0","1"," ","O","V","C","0","1","5","C","B">>, <<"F","E","W","0","1"," ","C","B">>, <<"K","S","T","L"," ","1","/","1","0","0","S","M">>,
    <<"K","S","T","L">> \o <<TAB>> \o <<"1","0","S","M">>, <<"K","S","T","L"," ">> \o <<TAB>> \o <<" ","1","0","S","M">> }

Inputs ==
  { Join(t) : t \in SeqsUpTo(Vocabulary, MaxTokens) }
    \cup { Join(t) : t \in SeqsUpTo(LayerVocabulary, MaxLayerTokens) }
    \cup SampleInputs

ConcInputs == { Join(t) : t \in SeqsUpTo(ConcVocabulary, MaxConcTokens) }

\* tokens of reports with present weather and remarks
WxVocabulary ==
  { <<"K","S","T","L">>, <<"2","3","1","7","5","1","Z">>, <<"-","R","A">>, <<"B","R">>, <<"R","A","S","N">>, <<"T","S">>, <<"R","M","K">>, <<"S","L","P","2","6","0">>,
    <<"T","0","0","9","4","0","0","6","1">>, <<"1","0","S","M">> }

WxInputs == { Join(t) : t \in SeqsUpTo(WxVocabulary, MaxWxTokens) }

\* what a read behind the end of the buffer may find at str + 6
OOBTails == { << >>, <<"C","B">>, <<"X">> }

\* ------------------------------------------------------ phenomena decoder
\* enum class phenom
phenom ==
  { "NONE", "MIST", "DUST_STORM", "DUST", "DRIZZLE", "FUNNEL_CLOUD", "FOG",
    "SMOKE", "HAIL", "SMALL_HAIL", "HAZE", "ICE_CRYSTALS", "ICE_PELLETS",
    "DUST_SAND_WHORLS", "SPRAY", "RAIN", "SAND", "SNOW_GRAINS", "SHOWER",
    "SNOW", "SQUALLS", "SAND_STORM", "UNKNOWN_PRECIP", "VOLCANIC_ASH" }

\* enum class intensity
intensity == { "LIGHT", "NORMAL", "HEAVY" }

\* the qualifiers class Phenom has an accessor for: Blowing, Freezing,
\* Drifting, Vicinity, Partial, Shallow, Patches, ThunderStorm, Temporary
Accessors ==
  { "blowing", "freezing", "drifting", "vicinity", "partial", "shallow",
    "patches", "thunderstorm", "temporary" }

\* the two-letter code the enumeration's comments give each phenomenon
phenom_code(c) ==
  CASE c = <<"B","R">> -> "MIST"
    [] c = <<"D","S">> -> "DUST_STORM"
    [] c = <<"D","U">> -> "DUST"
    [] c = <<"D","Z">> -> "DRIZZLE"
    [] c = <<"F","C">> -> "FUNNEL_CLOUD"
    [] c = <<"F","G">> -> "FOG"
    [] c = <<"F","U">> -> "SMOKE"
    [] c = <<"G","R">> -> "HAIL"
    [] c = <<"G","S">> -> "SMALL_HAIL"
    [] c = <<"H","Z">> -> "HAZE"
    [] c = <<"I","C">> -> "ICE_CRYSTALS"
    [] c = <<"P","E">> -> "ICE_PELLETS"
    [] c = <<"P","O">> -> "DUST_SAND_WHORLS"
    [] c = <<"P","Y">> -> "SPRAY"
    [] c = <<"R","A">> -> "RAIN"
    [] c = <<"S","A">> -> "SAND"
    [] c = <<"S","G">> -> "SNOW_GRAINS"
    [] c = <<"S","H">> -> "SHOWER"
    [] c = <<"S","N">> -> "SNOW"
    [] c = <<"S","Q">> -> "SQUALLS"
    [] c = <<"S","S">> -> "SAND_STORM"
    [] c = <<"U","P">> -> "UNKNOWN_PRECIP"
    [] c = <<"V","A">> -> "VOLCANIC_ASH"
    [] OTHER -> "NONE"

\* the qualifier a two-letter prefix stands for, "" when it is none
qualifier(c) ==
  CASE c = <<"V","C">> -> "vicinity"
    [] c = <<"B","L">> -> "blowing"
    [] c = <<"F","Z">> -> "freezing"
    [] c = <<"D","R">> -> "drifting"
    [] c = <<"S","H">> -> "shower"
    [] c = <<"P","R">> -> "partial"
    [] c = <<"M","I">> -> "shallow"
    [] c = <<"B","C">> -> "patches"
    [] c = <<"T","S">> -> "thunderstorm"
    [] OTHER -> ""

RECURSIVE strip_qualifiers(_, _)
\* the qualifier prefixes stripped off body while something is left after
\* them: the qualifiers found, and the rest
strip_qualifiers(body, found) ==
  IF Len(body) > 2 /\ qualifier(SubSeq(body, 1, 2)) # ""
    THEN strip_qualifiers(Drop(body, 2),
                          found \cup { qualifier(SubSeq(body, 1, 2)) })
    ELSE [found |-> found, rest |-> body]

RECURSIVE core_codes(_)
\* the phenomena of the two-letter codes of body, unknown codes skipped;
\* PL is the newer code of ice pellets
core_codes(body) ==
  IF Len(body) < 2 THEN << >>
  ELSE LET c == SubSeq(body, 1, 2)
           k == IF c = <<"P","L">> THEN "ICE_PELLETS" ELSE phenom_code(c)
       IN (IF k = "NONE" THEN << >> ELSE <<k>>) \o core_codes(Drop(body, 2))

\* Create with the intensity signs exchanged
Create_signs_exchanged(str, temporary) ==
  LET int == IF str # << >> /\ Head(str) = "+" THEN "LIGHT"
             ELSE IF str # << >> /\ Head(str) = "-" THEN "HEAVY"
             ELSE "NORMAL"
      body == IF str # << >> /\ Head(str) \in { "+", "-" } THEN Tail(str)
              ELSE str
      q == strip_qualifiers(body, { })
      found == IF q.rest = <<"S","H">> THEN q.found \cup { "shower" } ELSE q.found
      kinds == IF q.rest = <<"T","S">> THEN << "THUNDER_STORM" >>
               ELSE IF q.rest = <<"R","A","S","N">> THEN << "SLEET" >>
               ELSE core_codes(q.rest)
  IN [ phenoms |-> kinds, intensity |-> int,
       blowing |-> "blowing" \in found, freezing |-> "freezing" \in found,
       drifting |-> "drifting" \in found, vicinity |-> "vicinity" \in found,
       shower |-> "shower" \in found, partial |-> "partial" \in found,
       shallow |-> "shallow" \in found, patches |-> "patches" \in found,
       thunderstorm |-> "thunderstorm" \in found, temporary |-> temporary ]

\* Phenom::Create(str, temp), temp here temporary: intensity from a leading + or -, qualifier
\* prefixes, then the phenomena; TS alone is the thunderstorm phenomenon, SH
\* alone the shower, RASN the one phenomenon sleet
Create(str, temporary) ==
  LET int == IF str # << >> /\ Head(str) = "+" THEN "HEAVY"
             ELSE IF str # << >> /\ Head(str) = "-" THEN "LIGHT"
             ELSE "NORMAL"
      body == IF str # << >> /\ Head(str) \in { "+", "-" } THEN Tail(str)
              ELSE str
      q == strip_qualifiers(body, { })
      found == IF q.rest = <<"S","H">> THEN q.found \cup { "shower" } ELSE q.found
      kinds == IF q.rest = <<"T","S">> THEN << "THUNDER_STORM" >>
               ELSE IF q.rest = <<"R","A","S","N">> THEN << "SLEET" >>
               ELSE core_codes(q.rest)
  IN [ phenoms |-> kinds, intensity |-> int,
       blowing |-> "blowing" \in found, freezing |-> "freezing" \in found,
       drifting |-> "drifting" \in found, vicinity |-> "vicinity" \in found,
       shower |-> "shower" \in found, partial |-> "partial" \in found,
       shallow |-> "shallow" \in found, patches |-> "patches" \in found,
       thunderstorm |-> "thunderstorm" \in found, temporary |-> temporary ]

\* no Phenom object: Create has not been called
NO_PHENOM == Create(<< >>, FALSE)

\* ------------------------------------------------------------------- state
Procs == {1, 2}
\* arg: the caller's string; dup: the copy parse(const char *) makes
BufIds == {"arg1", "arg2", "dup1", "dup2"}
DupOf(p) == IF p = 1 THEN "dup1" ELSE "dup2"

VARIABLES
  mem,    \* the character buffers; << >> is one not allocated, or freed
  save,   \* strtok's static position
  arg,    \* per caller, the buffer holding the string it decodes
  work,   \* per caller, the buffer parse(char *) tokenizes
  pc,     \* per caller: "idle", "loop", "done", "crashed"
  el,     \* per caller, the loop's current token
  m,      \* per caller, its Metar object
  input,  \* per caller, history: the string as the caller passed it
  log,    \* per caller, history: the tokens dispatched and the branch taken
  phen    \* per caller, the Phenom object Create returned to it

vars == <<mem, save, arg, work, pc, el, m, input, log, phen>>

\* the C string at pointer ptr
CStr(memv, ptr) ==
  LET buf == memv[ptr.b]
      end == CHOOSE j \in ptr.off..Len(buf) :
               buf[j] = NUL /\ \A k \in ptr.off..(j - 1) : buf[k] # NUL
  IN SubSeq(buf, ptr.off, end - 1)

\* mutant: strtok without the skip over leading separators
strtok_no_skip(memv, savev, s) ==
  LET start == IF s = NULLPTR THEN savev ELSE s
      buf == memv[start.b]
      i == start.off
  IN IF buf[i] = NUL
       THEN [mem |-> memv, save |-> [b |-> start.b, off |-> i],
             tok |-> NULLPTR]
       ELSE
         LET j == CHOOSE e \in i..Len(buf) :
                    buf[e] \in {SP, NUL}
                    /\ \A k \in i..(e - 1) : buf[k] \notin {SP, NUL}
         IN IF buf[j] = NUL
              THEN [mem |-> memv, save |-> [b |-> start.b, off |-> j],
                    tok |-> [b |-> start.b, off |-> i]]
              ELSE [mem |-> [memv EXCEPT ![start.b][j] = NUL],
                    save |-> [b |-> start.b, off |-> j + 1],
                    tok |-> [b |-> start.b, off |-> i]]

\* strtok(s, " ") on buffers memv with static position savev; s = NULLPTR
\* continues from the static position.  Gives the new buffers, the new
\* static position and the token returned.
strtok(memv, savev, s) ==
  LET start == IF s = NULLPTR THEN savev ELSE s
      buf == memv[start.b]
      i == CHOOSE j \in start.off..Len(buf) :
             buf[j] # SP /\ \A k \in start.off..(j - 1) : buf[k] = SP
  IN IF buf[i] = NUL
       THEN [mem |-> memv, save |-> [b |-> start.b, off |-> i],
             tok |-> NULLPTR]
       ELSE
         LET j == CHOOSE e \in i..Len(buf) :
                    buf[e] \in {SP, NUL}
                    /\ \A k \in i..(e - 1) : buf[k] \notin {SP, NUL}
         IN IF buf[j] = NUL
              THEN [mem |-> memv, save |-> [b |-> start.b, off |-> j],
                    tok |-> [b |-> start.b, off |-> i]]
              ELSE [mem |-> [memv EXCEPT ![start.b][j] = NUL],
                    save |-> [b |-> start.b, off |-> j + 1],
                    tok |-> [b |-> start.b, off |-> i]]

\* the C string at str + 6 for the token at ptr; oob is what a read behind
\* the buffer finds
Tail6(memv, ptr, oob) ==
  IF ptr.off + 6 <= Len(memv[ptr.b])
    THEN CStr(memv, [b |-> ptr.b, off |-> ptr.off + 6])
    ELSE oob

\* the outcomes of reading str[6] in the cloud-layer sub-parser: one when the
\* read stays inside the buffer (or is not made), OOBTails when it does not
OOBChoices(memv, ptr, br, str) ==
  IF br = "cloud_layer" /\ Len(str) > 3 /\ ptr.off + 6 > Len(memv[ptr.b])
    THEN OOBTails ELSE { << >> }

PrevStr(memv, mm) ==
  IF mm._previous_element = NULLPTR THEN NULLSTR
  ELSE CStr(memv, mm._previous_element)

InitCommon ==
  /\ save = NULLPTR
  /\ work = [p \in Procs |-> "arg1"]
  /\ pc = [p \in Procs |-> "idle"]
  /\ el = [p \in Procs |-> NULLPTR]
  /\ m = [p \in Procs |-> MetarCtor]
  /\ log = [p \in Procs |-> << >>]
  /\ phen = [p \in Procs |-> NO_PHENOM]

\* two callers that decode the same string, one after the other
Init ==
  /\ \E in \in Inputs :
       /\ mem = [b \in BufIds |-> IF b = "arg1" THEN in \o <<NUL>> ELSE << >>]
       /\ input = [p \in Procs |-> in]
  /\ arg = [p \in Procs |-> "arg1"]
  /\ InitCommon

\* two callers, each with a string of its own
InitConc ==
  /\ \E in1 \in ConcInputs, in2 \in ConcInputs :
       /\ mem = [b \in BufIds |->
                   IF b = "arg1" THEN in1 \o <<NUL>>
                   ELSE IF b = "arg2" THEN in2 \o <<NUL>> ELSE << >>]
       /\ input = [p \in Procs |-> IF p = 1 THEN in1 ELSE in2]
  /\ arg = [p \in Procs |-> IF p = 1 THEN "arg1" ELSE "arg2"]
  /\ InitCommon

\* the first strtok of parse(char *) on buffer b whose contents are made memv
FirstToken(p, memv, b) ==
  LET r == strtok(memv, save, [b |-> b, off |-> 1]) IN
  /\ mem' = r.mem
  /\ save' = r.save
  /\ el' = [el EXCEPT ![p] = r.tok]
  /\ work' = [work EXCEPT ![p] = b]
  /\ pc' = [pc EXCEPT ![p] = "loop"]
  /\ UNCHANGED <<arg, m, input, log, phen>>

\* caller p runs once the callers before it have returned
Turn(p) == \A q \in Procs : q < p => pc[q] = "done"

\* Metar(const char *), called by one caller after the other: strdup, then
\* parse(char *) up to its first strtok
ParseConst(p) ==
  /\ pc[p] = "idle"
  /\ Turn(p)
  /\ FirstToken(p, [mem EXCEPT ![DupOf(p)] = mem[arg[p]]], DupOf(p))

\* Metar(char *): parse(char *) on the caller's buffer, up to its first strtok
ParseChar(p) ==
  /\ pc[p] = "idle"
  /\ FirstToken(p, mem, arg[p])

\* one iteration of the while loop: the if / else-if chain, then
\* _previous_element = el; el = strtok(nullptr, " ")
LoopBody(p) ==
  /\ pc[p] = "loop"
  /\ el[p] # NULLPTR
  /\ LET str == CStr(mem, el[p])
         br == dispatch(m[p], str)
         r == strtok(mem, save, NULLPTR)
     IN /\ \E oob \in OOBChoices(mem, el[p], br, str) :
             m' = [m EXCEPT ![p] =
                     [run_parser(m[p], br, str, PrevStr(mem, m[p]),
                                 Tail6(mem, el[p], oob))
                        EXCEPT !._previous_element = el[p]]]
        /\ log' = [log EXCEPT ![p] = Append(@, [br |-> br, tok |-> str])]
        /\ mem' = r.mem
        /\ save' = r.save
        /\ el' = [el EXCEPT ![p] = r.tok]
  /\ UNCHANGED <<arg, work, pc, input, phen>>

\* the same iteration when the sub-parser writes past its local array, or
\* reads behind the buffer, and the build traps it (fortified strcpy,
\* address sanitizer)
LoopBodyCrash(p) ==
  /\ pc[p] = "loop"
  /\ el[p] # NULLPTR
  /\ LET str == CStr(mem, el[p]) IN
       \/ overflows(dispatch(m[p], str), str)
       \/ OOBChoices(mem, el[p], dispatch(m[p], str), str) = OOBTails
  /\ pc' = [pc EXCEPT ![p] = "crashed"]
  /\ UNCHANGED <<mem, save, arg, work, el, m, input, log, phen>>

\* el is nullptr: the loop ends; parse(const char *) frees its copy
LoopExit(p) ==
  /\ pc[p] = "loop"
  /\ el[p] = NULLPTR
  /\ pc' = [pc EXCEPT ![p] = "done"]
  /\ mem' = IF work[p] = DupOf(p) THEN [mem EXCEPT ![work[p]] = << >>]
            ELSE mem
  /\ UNCHANGED <<save, arg, work, el, m, input, log, phen>>

Next ==
  \E p \in Procs :
    \/ ParseConst(p)
    \/ LoopBody(p)
    \/ LoopBodyCrash(p)
    \/ LoopExit(p)

Spec == Init /\ [][Next]_vars

NextConc ==
  \E p \in Procs :
    \/ ParseChar(p)
    \/ LoopBody(p)
    \/ LoopBodyCrash(p)
    \/ LoopExit(p)

SpecConc == InitConc /\ [][NextConc]_vars

\* ------------------------------------------------------------- properties
\* the guarded field groups, named after the branch that fills them
Groups ==
  { "metar", "icao", "ot", "wind", "wind_var", "vis", "vert_vis", "temp",
    "altA", "altQ", "slp", "tempNA" }

\* the values of group g in Metar object mm
GroupVals(mm, g) ==
  CASE g = "metar"    -> <<mm._metar>>
    [] g = "icao"     -> <<mm._icao>>
    [] g = "ot"       -> <<mm._day, mm._hour, mm._min>>
    [] g = "wind"     -> <<mm._wind_dir, mm._wind_spd, mm._gust,
                           mm._wind_speed_units, mm._vrb>>
    [] g = "wind_var" -> <<mm._min_wind_dir, mm._max_wind_dir>>
    [] g = "vis"      -> <<mm._vis, mm._vis_units, mm._vis_lt, mm._cavok>>
    [] g = "vert_vis" -> <<mm._vert_vis>>
    [] g = "temp"     -> <<mm._temp, mm._dew>>
    [] g = "altA"     -> <<mm._altimeterA>>
    [] g = "altQ"     -> <<mm._altimeterQ>>
    [] g = "slp"      -> <<mm._slp>>
    [] g = "tempNA"   -> <<mm._ftemp, mm._fdew>>
    [] g = "cloud_layer" -> <<mm._num_layers, mm._layers>>

\* some token examined so far by caller p went to the sub-parser of g
Ran(p, g) == \E i \in 1..Len(log[p]) : log[p][i].br = g
\* the number of tokens of caller p that went to the sub-parser of g
RanCount(p, g) == Cardinality({ i \in 1..Len(log[p]) : log[p][i].br = g })

\* the shape test of group g alone, without its guard
Shape(g, str) ==
  CASE g = "metar"    -> str \in { <<"M","E","T","A","R">>, <<"S","P","E","C","I">> }
    [] g = "icao"     -> Len(str) = 4 /\ \A i \in 1..4 : str[i] \in Alphas
    [] g = "ot"       -> is_ot(str)
    [] g = "wind"     -> is_wind(str)
    [] g = "wind_var" -> is_wind_var(str)
    [] g = "vis"      -> is_vis(str)
    [] g = "cloud_layer" -> Len(str) >= 3 /\
         SubSeq(str, 1, 3) \in { sky_conditions[i] : i \in 1..NUM_LAYERS }
    [] g = "vert_vis" -> is_vert_vis(str)
    [] g = "temp"     -> is_temp(str)
    [] g = "altA"     -> is_altA(str)
    [] g = "altQ"     -> is_altQ(str)
    [] g = "slp"      -> is_slp(str)
    [] g = "tempNA"   -> is_tempNA(str)

\* C1: once a token has populated a guarded field group, no later step of the
\* same decode changes any value of that group (first occurrence wins).
C1_FirstOccurrenceWins ==
  [][ \A p \in Procs : \A g \in Groups :
        Ran(p, g) => GroupVals(m'[p], g) = GroupVals(m[p], g) ]_vars

\* C1 witness: a finished decode that met two different wind tokens and kept
\* the first one's speed.
C1_Witness ==
  \E i, j \in 1..Len(log[1]) :
    /\ pc[1] = "done" /\ i < j
    /\ log[1][i].br = "wind"
    /\ is_wind(log[1][j].tok) /\ log[1][j].tok # log[1][i].tok
    /\ m[1]._wind_spd = atoi(strncpy(Drop(log[1][i].tok, 3), 3))
    /\ m[1]._wind_spd # atoi(strncpy(Drop(log[1][j].tok, 3), 3))

\* the fixed priority order of the predicates
Order ==
  << "metar", "icao", "ot", "wind", "wind_var", "vis", "cloud_layer",
     "vert_vis", "temp", "altA", "altQ", "slp", "tempNA" >>

\* group g can still take a token of caller p: no token went to it so far
\* (for cloud layers: fewer than 3 did)
Open(p, g) ==
  IF g = "cloud_layer" THEN RanCount(p, g) < 3 ELSE ~Ran(p, g)

\* the first group in Order that is open for caller p and whose shape str has
FirstOpen(p, str) ==
  LET hits == { i \in 1..Len(Order) : Open(p, Order[i]) /\ Shape(Order[i], str) }
  IN IF hits = {} THEN "none"
     ELSE Order[CHOOSE i \in hits : \A k \in hits : i <= k]

\* C2: every token examined is dispatched to exactly the first predicate, in
\* the fixed order, that is still open and whose shape matches: that group is
\* the one recorded, and no other group's values change in the step.
C2_DispatchOrder ==
  [][ \A p \in Procs :
        log'[p] # log[p] =>
          LET e == log'[p][Len(log'[p])]
              g == FirstOpen(p, e.tok)
          IN /\ e.br = g
             /\ \A h \in (Groups \cup {"cloud_layer"}) \ {g} :
                  GroupVals(m'[p], h) = GroupVals(m[p], h)
             /\ g # "none" => GroupVals(m'[p], g) # GroupVals(m[p], g) ]_vars

\* C2 witness: a second observation-time token, its own predicate skipped
\* because the time is populated, went on to the wind predicate.
C2_Witness ==
  \E i, j \in 1..Len(log[1]) :
    /\ i < j
    /\ log[1][i].br = "ot"
    /\ is_ot(log[1][j].tok) /\ log[1][j].br = "wind"
    /\ m[1]._wind_dir = atoi(strncpy(log[1][j].tok, 3))

\* cover and altitude of the layer a cloud-layer token stands for
CoverAlt(str) ==
  [ cond |-> SubSeq(str, 1, 3),
    alt |-> IF Len(str) = 3 THEN INTEGER_UNDEFINED
            ELSE atoi(Drop(str, 3)) * 100 ]

\* the cloud-layer tokens caller p has examined so far that no predicate of
\* higher priority took, in report order
CloudTokens(p) ==
  SelectSeq(log[p],
    LAMBDA e : Shape("cloud_layer", e.tok)
               /\ e.br \notin {"metar", "icao", "ot", "wind", "wind_var", "vis"})

\* C3: at most 3 cloud layers; the layers kept are the first (up to) three
\* cloud-layer tokens in report order, so every later one changes nothing.
C3_AtMostThreeLayers ==
  \A p \in Procs :
    /\ m[p]._num_layers <= 3
    /\ Len(m[p]._layers) = m[p]._num_layers
    /\ m[p]._num_layers = IF Len(CloudTokens(p)) < 3 THEN Len(CloudTokens(p))
                          ELSE 3
    /\ \A i \in 1..m[p]._num_layers :
         /\ m[p]._layers[i]._cond = CoverAlt(CloudTokens(p)[i].tok).cond
         /\ m[p]._layers[i]._alt = CoverAlt(CloudTokens(p)[i].tok).alt

\* C3 witness: a finished decode of a report with four cloud-layer tokens, the
\* fourth different from the third, holding three layers.
C3_Witness ==
  /\ pc[1] = "done"
  /\ Len(CloudTokens(1)) >= 4
  /\ CloudTokens(1)[4].tok # CloudTokens(1)[3].tok
  /\ m[1]._num_layers = 3

\* C4: isCAVOK and hasVisibility are never both true; after a CAVOK token no
\* later token goes to the visibility sub-parser, and after a visibility token
\* a later CAVOK token does not either.
C4_VisibilityXorCavok ==
  \A p \in Procs :
    /\ ~(isCAVOK(m[p]) /\ hasVisibility(m[p]))
    /\ \A i, j \in 1..Len(log[p]) :
         i < j /\ log[p][i].br = "vis" =>
           /\ log[p][j].br # "vis"
           /\ log[p][i].tok = <<"C","A","V","O","K">> =>
                isCAVOK(m[p]) /\ ~hasVisibility(m[p])
           /\ log[p][i].tok # <<"C","A","V","O","K">> =>
                ~isCAVOK(m[p]) /\ hasVisibility(m[p])

\* C4 witness: a finished decode that met CAVOK and then a visibility token.
C4_Witness ==
  \E i, j \in 1..Len(log[1]) :
    /\ pc[1] = "done" /\ i < j
    /\ log[1][i].tok = <<"C","A","V","O","K">> /\ log[1][i].br = "vis"
    /\ is_vis(log[1][j].tok) /\ log[1][j].tok # <<"C","A","V","O","K">>

\* C5: hasAltimeterA and hasAltimeterQ are never both true.
C5_AltimetersExclusive ==
  \A p \in Procs : ~(hasAltimeterA(m[p]) /\ hasAltimeterQ(m[p]))

\* the sub-parser of g ran, for caller p, on a token with property P
RanOn(p, g, P(_)) ==
  \E i \in 1..Len(log[p]) : log[p][i].br = g /\ P(log[p][i].tok)

\* the presence predicates whose field the sub-parser of its group always sets
AlwaysSetAgree(p) ==
  /\ hasMETAR(m[p]) <=> Ran(p, "metar")
  /\ hasICAO(m[p]) <=> Ran(p, "icao")
  /\ hasDay(m[p]) <=> Ran(p, "ot")
  /\ hasHour(m[p]) <=> Ran(p, "ot")
  /\ hasMinute(m[p]) <=> Ran(p, "ot")
  /\ hasWindSpeed(m[p]) <=> Ran(p, "wind")
  /\ hasWindSpeedUnits(m[p]) <=> Ran(p, "wind")
  /\ hasMinWindDirection(m[p]) <=> Ran(p, "wind_var")
  /\ hasMaxWindDirection(m[p]) <=> Ran(p, "wind_var")
  /\ hasVerticalVisibility(m[p]) <=> Ran(p, "vert_vis")
  /\ hasTemperature(m[p]) <=> Ran(p, "temp")
  /\ hasAltimeterA(m[p]) <=> Ran(p, "altA")
  /\ hasAltimeterQ(m[p]) <=> Ran(p, "altQ")
  /\ hasSeaLevelPressure(m[p]) <=> Ran(p, "slp")
  /\ hasTemperatureNA(m[p]) <=> Ran(p, "tempNA")
  /\ hasDewPointNA(m[p]) <=> Ran(p, "tempNA")

\* C6 as stated: after a decode every presence predicate, those of
\* windDirection, dewPoint and visibility included, is true exactly when the
\* field's sub-parser ran on some token.
C6_HasIffParserRan ==
  \A p \in Procs :
    pc[p] = "done" =>
      /\ AlwaysSetAgree(p)
      /\ hasWindDirection(m[p]) <=> Ran(p, "wind")
      /\ hasDewPoint(m[p]) <=> Ran(p, "temp")
      /\ hasVisibility(m[p]) <=> Ran(p, "vis")

HasNoVRB(str) == strstr(str, <<"V","R","B">>) = -1
HasG(str) == strstr(str, <<"G">>) # -1
HasDewPart(str) == Drop(str, strstr(str, <<"/">>) + 1) # << >>
NotCAVOK(str) == str # <<"C","A","V","O","K">>
IsCAVOKToken(str) == str = <<"C","A","V","O","K">>

\* C6 amended: a presence predicate is true after a decode exactly when the
\* field's sub-parser ran on a token that carries the field: windDirection
\* when the wind token has no VRB, windGust when it has a G, dewPoint when the
\* temperature token has a right side, visibility and its unit when the
\* visibility token is not CAVOK (which sets isCAVOK instead); every other
\* field whenever its sub-parser ran.
C6_HasIffFieldParsed ==
  \A p \in Procs :
    pc[p] = "done" =>
      /\ AlwaysSetAgree(p)
      /\ hasWindDirection(m[p]) <=> RanOn(p, "wind", HasNoVRB)
      /\ hasWindGust(m[p]) <=> RanOn(p, "wind", HasG)
      /\ hasDewPoint(m[p]) <=> RanOn(p, "temp", HasDewPart)
      /\ hasVisibility(m[p]) <=> RanOn(p, "vis", NotCAVOK)
      /\ hasVisibilityUnits(m[p]) <=> RanOn(p, "vis", NotCAVOK)
      /\ isCAVOK(m[p]) <=> RanOn(p, "vis", IsCAVOKToken)

\* C6 witness: a finished decode whose temperature sub-parser ran on a token
\* without a dew point and whose wind sub-parser ran on a VRB token.
C6_Witness ==
  /\ pc[1] = "done"
  /\ RanOn(1, "temp", LAMBDA t : ~HasDewPart(t))
  /\ RanOn(1, "wind", LAMBDA t : ~HasNoVRB(t))
  /\ ~hasDewPoint(m[1]) /\ ~hasWindDirection(m[1])

\* every presence predicate of Metar object mm is false
NothingPresent(mm) ==
  /\ ~hasMETAR(mm) /\ ~hasICAO(mm)
  /\ ~hasDay(mm) /\ ~hasHour(mm) /\ ~hasMinute(mm)
  /\ ~hasTemperature(mm) /\ ~hasDewPoint(mm)
  /\ ~hasTemperatureNA(mm) /\ ~hasDewPointNA(mm)
  /\ ~hasWindSpeed(mm) /\ ~hasWindDirection(mm) /\ ~hasWindGust(mm)
  /\ ~hasWindSpeedUnits(mm)
  /\ ~hasMinWindDirection(mm) /\ ~hasMaxWindDirection(mm)
  /\ ~hasVisibility(mm) /\ ~hasVisibilityUnits(mm)
  /\ ~hasVerticalVisibility(mm)
  /\ ~hasAltimeterA(mm) /\ ~hasAltimeterQ(mm)
  /\ ~hasSeaLevelPressure(mm)

\* C7: decoding the empty string gives a report with every presence predicate
\* false, no cloud layer, and Layer(0) the no-layer indicator.
C7_EmptyInput ==
  \A p \in Procs :
    pc[p] = "done" /\ input[p] = << >> =>
      /\ NothingPresent(m[p])
      /\ ~isCAVOK(m[p]) /\ ~m[p]._vrb /\ ~m[p]._vis_lt
      /\ NumCloudLayers(m[p]) = 0
      /\ Layer(m[p], 0) = NO_LAYER
      /\ log[p] = << >>

\* C7 witness: a finished decode of the empty string.
C7_Witness == pc[1] = "done" /\ input[1] = << >>

RECURSIVE Tokens(_)
\* the maximal runs of non-space characters of s, in order
Tokens(s) ==
  IF s = << >> THEN << >>
  ELSE IF Head(s) = SP THEN Tokens(Tail(s))
  ELSE LET n == IF \E k \in 1..Len(s) : s[k] = SP
                  THEN (CHOOSE k \in 1..Len(s) :
                          s[k] = SP /\ \A j \in 1..(k - 1) : s[j] # SP) - 1
                  ELSE Len(s)
       IN <<SubSeq(s, 1, n)>> \o Tokens(Drop(s, n))

\* the tokens caller p has examined, in the order it examined them
Examined(p) == [i \in 1..Len(log[p]) |-> log[p][i].tok]

\* C8: no decode ends in an error outcome, and a decode that has returned
\* examined each token of its input exactly once, in input order.
C8_NoErrorEachTokenOnce ==
  \A p \in Procs :
    /\ pc[p] # "crashed"
    /\ pc[p] = "done" => Examined(p) = Tokens(input[p])

\* the report: every field of the object but the loop's lookback pointer
Report(mm) == [mm EXCEPT !._previous_element = NULLPTR]

\* C9: two decodes of the same string, one after the other, give
\* field-for-field identical reports.
C9_SameInputSameReport ==
  pc[1] = "done" /\ pc[2] = "done" =>
    /\ Report(m[1]) = Report(m[2])
    /\ Examined(1) = Examined(2)

RECURSIVE DecodeFrom(_, _, _)
\* the report of the token loop run alone over tokens toks, prev being the
\* previous token (for tokens whose character 6 lies inside the token)
DecodeFrom(mm, toks, prev) ==
  IF toks = << >> THEN mm
  ELSE DecodeFrom(run_parser(mm, dispatch(mm, Head(toks)), Head(toks), prev,
                             Drop(Head(toks), 6)),
                  Tail(toks), Head(toks))

DecodeAlone(s) == Report(DecodeFrom(MetarCtor, Tokens(s), NULLSTR))

\* C10: under every interleaving of two concurrent decodes, each decode that
\* returns gives the report it gives when run alone.
C10_ConcurrentDecodesIndependent ==
  \A p \in Procs : pc[p] = "done" => Report(m[p]) = DecodeAlone(input[p])

\* ------------------------------------------------- single groups of a report
\* the concatenations of one sequence of A with one of B
Cat(A, B) == { a \o b : a \in A, b \in B }

\* two-digit fields of a report, zero-padded
TwoDigits == { <<"0","0">>, <<"0","1">>, <<"0","9">>, <<"1","7">>, <<"2","3">>, <<"5","1">>, <<"9","9">> }

\* observation-time tokens DDHHMMZ
OTTokens == Cat(Cat(Cat(TwoDigits, TwoDigits), TwoDigits), { <<"Z">> })

RECURSIVE Val(_)
\* the number a sequence of digits writes in base ten
Val(ds) ==
  IF ds = << >> THEN 0
  ELSE 10 * Val(SubSeq(ds, 1, Len(ds) - 1)) + DigitVal(ds[Len(ds)])

\* s is made of digits only
AllDigits(s) == \A i \in 1..Len(s) : s[i] \in Digits

\* s is an observation-time token: six digits, then Z
IsOTToken(s) == Len(s) = 7 /\ AllDigits(SubSeq(s, 1, 6)) /\ s[7] = "Z"

\* C11: the decode of a report that is one observation-time token DDHHMMZ
\* does not end in an error, and when it has returned day = DD, hour = HH,
\* minute = MM and the three presence predicates are true together.
C11_ObservationTime ==
  \A p \in Procs :
    IsOTToken(input[p]) =>
      /\ pc[p] # "crashed"
      /\ pc[p] = "done" =>
           /\ m[p]._day = Val(SubSeq(input[p], 1, 2))
           /\ m[p]._hour = Val(SubSeq(input[p], 3, 4))
           /\ m[p]._min = Val(SubSeq(input[p], 5, 6))
           /\ hasDay(m[p]) /\ hasHour(m[p]) /\ hasMinute(m[p])

\* one side of a temperature token: two digits, optionally prefixed by M
TempSides == TwoDigits \cup Cat({ <<"M">> }, TwoDigits)

\* temperature tokens L/R, R possibly empty
TempTokens == Cat(Cat(TempSides, { <<"/">> }), TempSides \cup { << >> })

\* s is two digits, optionally prefixed by M
IsTempSide(s) ==
  \/ Len(s) = 2 /\ AllDigits(s)
  \/ Len(s) = 3 /\ s[1] = "M" /\ AllDigits(Tail(s))

\* the degrees a side of a temperature token writes
SideVal(s) == IF Head(s) = "M" THEN 0 - Val(Tail(s)) ELSE Val(s)

\* the position of the first "/" of s, 0 when it has none
SlashPos(s) ==
  IF \E i \in 1..Len(s) : s[i] = "/"
    THEN CHOOSE i \in 1..Len(s) : s[i] = "/" /\ \A j \in 1..(i - 1) : s[j] # "/"
    ELSE 0

LeftOf(s) == SubSeq(s, 1, SlashPos(s) - 1)
RightOf(s) == SubSeq(s, SlashPos(s) + 1, Len(s))

\* s is a temperature token L/R: L a side, R a side or empty
IsTempToken(s) ==
  /\ SlashPos(s) > 0
  /\ IsTempSide(LeftOf(s))
  /\ RightOf(s) = << >> \/ IsTempSide(RightOf(s))

\* C12: the decode of a report that is one temperature token L/R sets
\* temperature to the value of L and dewPoint to the value of R (negated
\* when prefixed M), and leaves dewPoint absent exactly when R is empty.
C12_Temperature ==
  \A p \in Procs :
    pc[p] = "done" /\ IsTempToken(input[p]) =>
      /\ hasTemperature(m[p])
      /\ m[p]._temp = SideVal(LeftOf(input[p]))
      /\ hasDewPoint(m[p]) <=> RightOf(input[p]) # << >>
      /\ RightOf(input[p]) # << >> => m[p]._dew = SideVal(RightOf(input[p]))

\* the parts of a wind token: direction, speed, gust, unit suffix
WindDirs == { <<"0","0","0">>, <<"0","4","5">>, <<"2","4","0">>, <<"3","6","0">> }
WindSpeeds == { <<"0","0">>, <<"0","5">>, <<"9","9">>, <<"0","1","0">>, <<"1","0","5">> }
WindGusts == { <<"1","2">>, <<"0","8">>, <<"1","2","1">>, <<"0","0","9">> }
WindUnits == { << >>, WIND_SPEED_KT, WIND_SPEED_MPS, WIND_SPEED_KPH }

\* the wind token of direction part d (three digits or VRB), speed sp, gust
\* part g (empty, or G and the gust) and unit suffix u
WindToken(d, sp, g, u) == d \o sp \o g \o u

WindTokens ==
  { WindToken(d, sp, g, u) :
      d \in WindDirs \cup { <<"V","R","B">> }, sp \in WindSpeeds,
      g \in { << >> } \cup Cat({ <<"G">> }, WindGusts), u \in WindUnits }

\* C13: the decode of a report that is one wind token sets the unit to the
\* token's suffix (KT without one), for VRB the variable flag and no
\* direction, otherwise the direction and no variable flag, the speed to the
\* digits from the 4th character on, and the gust to the digits after G,
\* leaving it absent without G.
C13_Wind ==
  \A p \in Procs :
    \A d \in WindDirs \cup { <<"V","R","B">> }, sp \in WindSpeeds,
       g \in { << >> } \cup WindGusts, u \in WindUnits :
      /\ pc[p] = "done"
      /\ input[p] = WindToken(d, sp, IF g = << >> THEN g ELSE <<"G">> \o g, u)
      => /\ m[p]._wind_speed_units = (IF u = << >> THEN WIND_SPEED_KT ELSE u)
         /\ IF d = <<"V","R","B">>
              THEN m[p]._vrb /\ ~hasWindDirection(m[p])
              ELSE ~m[p]._vrb /\ m[p]._wind_dir = Val(d)
         /\ m[p]._wind_spd = Val(sp)
         /\ IF g = << >> THEN ~hasWindGust(m[p]) ELSE m[p]._gust = Val(g)

\* C13 witness: the decode of a variable wind with a three-digit speed and
\* gust in MPS has returned
C13_Witness ==
  /\ pc[1] = "done" /\ input[1] = <<"V","R","B","1","0","5","G","1","2","1","M","P","S">>
  /\ m[1]._gust = 121 /\ m[1]._wind_spd = 105 /\ m[1]._vrb
  /\ m[1]._wind_speed_units = WIND_SPEED_MPS

\* tokens around a split visibility: whole numbers, a station, fractions
LookbackVocabulary ==
  { <<"2">>, <<"7">>, <<"2","2">>, <<"K","S","T","L">>, <<"1","/","2","S","M">>, <<"M","1","/","4","S","M">>, <<"3","/","4","S","M">>, <<"1","0","S","M">> }

LookbackInputs ==
  { Join(t) : t \in SeqsUpTo(LookbackVocabulary, MaxLookbackTokens) }

\* s is a fractional statute-mile token: optional M, digits, /, digits, SM
IsFractionSM(s) ==
  /\ Len(s) >= 5
  /\ SubSeq(s, Len(s) - 1, Len(s)) = VIS_UNITS_SM
  /\ SlashPos(s) > 1
  /\ LET l == LeftOf(s)
         n == IF Head(l) = "M" THEN Tail(l) ELSE l
         d == SubSeq(s, SlashPos(s) + 1, Len(s) - 2)
     IN n # << >> /\ AllDigits(n) /\ d # << >> /\ AllDigits(d)

\* numerator and denominator of a fractional statute-mile token
FractionNum(s) ==
  Val(IF Head(s) = "M" THEN Tail(LeftOf(s)) ELSE LeftOf(s))
FractionDen(s) == Val(SubSeq(s, SlashPos(s) + 1, Len(s) - 2))

\* s is digits followed by SM
IsWholeSM(s) ==
  /\ Len(s) >= 3
  /\ SubSeq(s, Len(s) - 1, Len(s)) = VIS_UNITS_SM
  /\ AllDigits(SubSeq(s, 1, Len(s) - 2))

\* the whole-number part the i-th token of caller p receives: the token
\* right before it when that is a bare single digit, else nothing
WholePart(p, i) ==
  IF i > 1 /\ Len(log[p][i - 1].tok) = 1 /\ AllDigits(log[p][i - 1].tok)
    THEN Val(log[p][i - 1].tok) ELSE 0

\* C14: a fractional statute-mile token n/dSM taken as the visibility gives
\* n/d plus W when the token right before it in the report is a bare single
\* digit W, and n/d alone otherwise (first token, or the digit not adjacent);
\* a non-fractional SM token gives its own number whatever precedes it.
C14_SplitVisibility ==
  \A p \in Procs : \A i \in 1..Len(log[p]) :
    LET tok == log[p][i].tok IN
    log[p][i].br = "vis" =>
      /\ IsFractionSM(tok) =>
           m[p]._vis = Rat(FractionNum(tok) + WholePart(p, i) * FractionDen(tok),
                           FractionDen(tok))
      /\ IsWholeSM(tok) =>
           m[p]._vis = Rat(Val(SubSeq(tok, 1, Len(tok) - 2)), 1)

\* C14 witness: "2 1/2SM" decoded to 2.5, the digit adjacent to the fraction
C14_Witness ==
  /\ pc[1] = "done" /\ input[1] = <<"2"," ","1","/","2","S","M">>
  /\ m[1]._vis = Rat(5, 2) /\ m[1]._vis_units = VIS_UNITS_SM

\* numerators and denominators of fractional visibilities
VisNumerators == { <<"1">>, <<"3">>, <<"1","1">> }
VisDenominators == { <<"2">>, <<"4">>, <<"1","6">>, <<"1","0","0">> }

\* visibility tokens: four digits; digits and SM; n/dSM, with or without M
VisTokens ==
  Cat(TwoDigits, TwoDigits)
    \cup Cat({ <<"5">>, <<"0","7">>, <<"1","0">>, <<"1","0","0">> }, { VIS_UNITS_SM })
    \cup Cat(Cat(Cat(Cat({ << >>, <<"M">> }, VisNumerators), { <<"/">> }),
                 VisDenominators), { VIS_UNITS_SM })

\* C15: the decode of a report that is one visibility token does not end in
\* an error and gives: for four digits that integer in meters; for digits and
\* SM that integer in statute miles; for n/dSM the fraction n/d in statute
\* miles; visibilityLessThan exactly for a fractional token with a leading M.
C15_VisibilityForms ==
  \A p \in Procs :
    LET s == input[p] IN
    /\ (Len(s) = 4 /\ AllDigits(s)) =>
         /\ pc[p] # "crashed"
         /\ pc[p] = "done" =>
              /\ m[p]._vis = Rat(Val(s), 1)
              /\ m[p]._vis_units = VIS_UNITS_M
              /\ ~m[p]._vis_lt
    /\ IsWholeSM(s) =>
         /\ pc[p] # "crashed"
         /\ pc[p] = "done" =>
              /\ m[p]._vis = Rat(Val(SubSeq(s, 1, Len(s) - 2)), 1)
              /\ m[p]._vis_units = VIS_UNITS_SM
              /\ ~m[p]._vis_lt
    /\ IsFractionSM(s) =>
         /\ pc[p] # "crashed"
         /\ pc[p] = "done" =>
              /\ m[p]._vis = Rat(FractionNum(s), FractionDen(s))
              /\ m[p]._vis_units = VIS_UNITS_SM
              /\ m[p]._vis_lt <=> Head(s) = "M"

\* the parts of a cloud-layer token: altitude digits, suffix
LayerAltitudes == { <<"0","0","0">>, <<"0","0","4">>, <<"0","1","5">>, <<"1","0","5">>, <<"9","9","9">> }
LayerSuffixes == { <<"T","C","U">>, <<"C","B">>, <<"A","C","C">>, <<"X">>, <<"C">>, <<"T","C">>, <<"C","B","X">> }

\* cloud-layer tokens: the code alone, code and altitude, code, altitude
\* and suffix
LayerTokens ==
  LET codes == { sky_conditions[i] : i \in 1..NUM_LAYERS } IN
  codes \cup Cat(codes, LayerAltitudes)
        \cup Cat(Cat(codes, LayerAltitudes), LayerSuffixes)

\* the cover codes
CoverCodes == { <<"S","K","C">>, <<"C","L","R">>, <<"N","S","C">>, <<"F","E","W">>, <<"S","C","T">>, <<"B","K","N">>, <<"O","V","C">> }

\* C16: the decode of a report that is one cloud-layer token appends one
\* layer with the token's cover code; the code alone gives no altitude and
\* no cloud type; code and three digits give altitude = digits x 100 and no
\* cloud type; with a suffix after the digits the altitude is the same and
\* the cloud type is present exactly when the suffix is TCU, CB or ACC.
C16_CloudLayer ==
  \A p \in Procs :
    \A c \in CoverCodes, a \in { << >> } \cup LayerAltitudes,
       t \in { << >> } \cup LayerSuffixes :
      /\ pc[p] = "done"
      /\ input[p] = c \o a \o t
      /\ a = << >> => t = << >>
      => /\ m[p]._num_layers = 1
         /\ Len(m[p]._layers) = 1
         /\ LET l == m[p]._layers[1] IN
              /\ l._cond = c
              /\ IF a = << >> THEN ~SkyHasAltitude(l)
                 ELSE l._alt = Val(a) * 100
              /\ SkyHasCloudType(l) <=> t \in { <<"T","C","U">>, <<"C","B">>, <<"A","C","C">> }
              /\ SkyHasCloudType(l) => l._type = t

\* C16 witness: a layer with a suffix that is no cloud type has been
\* appended, with its altitude and without a cloud type
C16_Witness ==
  /\ pc[1] = "done" /\ input[1] = <<"B","K","N","0","1","5","C","B","X">>
  /\ m[1]._num_layers = 1
  /\ m[1]._layers[1]._alt = 1500
  /\ ~SkyHasCloudType(m[1]._layers[1])

\* four-digit groups
FourDigits == Cat(TwoDigits, TwoDigits) \cup { <<"3","0","0","6">>, <<"3","0","2","9">>, <<"1","0","2","0">> }

\* altimeter reports: one token A#### or Q####, and one of each in both orders
AltInputs ==
  Cat({ <<"A">>, <<"Q">> }, FourDigits)
    \cup { <<"A","3","0","0","6"," ","Q","1","0","2","0">>, <<"Q","1","0","2","0"," ","A","3","0","0","6">>, <<"Q","0","9","9","8"," ","A","3","0","2","9">> }

\* s is the letter c followed by four digits
IsAltToken(s, c) == Len(s) = 5 /\ s[1] = c /\ AllDigits(Tail(s))

\* C17: the step that decodes a token A#### while no altimeterInHg is set
\* sets altimeterInHg to the four-digit value divided by 100 and leaves
\* altimeterHPa as it was; the step that decodes a token Q#### while no
\* altimeterHPa is set sets altimeterHPa to the four-digit value and leaves
\* altimeterInHg as it was.
C17_Altimeter ==
  [][ \A p \in Procs :
        log'[p] # log[p] =>
          LET tok == log'[p][Len(log'[p])].tok IN
          /\ IsAltToken(tok, "A") /\ m[p]._altimeterA = DOUBLE_UNDEFINED =>
               /\ m'[p]._altimeterA = Rat(Val(Tail(tok)), 100)
               /\ m'[p]._altimeterQ = m[p]._altimeterQ
          /\ IsAltToken(tok, "Q") /\ m[p]._altimeterQ = INTEGER_UNDEFINED =>
               /\ m'[p]._altimeterQ = Val(Tail(tok))
               /\ m'[p]._altimeterA = m[p]._altimeterA ]_vars

\* C17 witness: after Q1020 an A3006 token has been decoded to 30.06 with
\* the 1020 hPa still in place
C17_Witness ==
  /\ pc[1] = "done" /\ input[1] = <<"Q","1","0","2","0"," ","A","3","0","0","6">>
  /\ m[1]._altimeterA = Rat(3006, 100) /\ m[1]._altimeterQ = 1020

\* sea-level pressure tokens: SLP and every three-digit value
SLPTokens ==
  { <<"S","L","P">> \o <<a, b, c>> : a \in Digits, b \in Digits, c \in Digits }

\* C18: the decode of a report that is one token SLPnnn gives
\* seaLevelPressure = 1000 + nnn/10, for every nnn, so a value from 1000.0
\* to 1099.9.
C18_SeaLevelPressure ==
  \A p \in Procs :
    LET s == input[p] IN
    /\ pc[p] = "done"
    /\ Len(s) = 6 /\ SubSeq(s, 1, 3) = <<"S","L","P">> /\ AllDigits(SubSeq(s, 4, 6))
    => /\ m[p]._slp = Rat(10000 + Val(SubSeq(s, 4, 6)), 10)
       /\ m[p]._slp.d > 0
       /\ 1000 * m[p]._slp.d <= m[p]._slp.n
       /\ 10 * m[p]._slp.n <= 10999 * m[p]._slp.d

\* C18 witness: SLP999 decoded to 1099.9, not to a pressure below 1000
C18_Witness ==
  /\ pc[1] = "done" /\ input[1] = <<"S","L","P","9","9","9">>
  /\ m[1]._slp = Rat(10999, 10)

\* the groups of a precise-temperature token: sign digit, three digits
TNAGroups == Cat({ <<"0">>, <<"1">>, <<"2">>, <<"9">> }, { <<"0","0","0">>, <<"0","1","7">>, <<"0","8","3">>, <<"9","9","9">> })

\* precise-temperature tokens: T and two groups
TNATokens == Cat(Cat({ <<"T">> }, TNAGroups), TNAGroups)

\* the tenths of a degree a group s a b c writes: abc, negated when s is 1
TenthsOf(g) == IF g[1] = "1" THEN 0 - Val(Tail(g)) ELSE Val(Tail(g))

\* C19: the decode of a report that is one token T s1abc s2def sets
\* temperaturePrecise to abc/10, negated when s1 = 1, and dewPointPrecise to
\* def/10, negated when s2 = 1, both together.
C19_PreciseTemperature ==
  \A p \in Procs :
    LET s == input[p] IN
    /\ pc[p] = "done"
    /\ Len(s) = 9 /\ s[1] = "T" /\ AllDigits(Tail(s))
    => /\ m[p]._ftemp = Rat(TenthsOf(SubSeq(s, 2, 5)), 10)
       /\ m[p]._fdew = Rat(TenthsOf(SubSeq(s, 6, 9)), 10)
       /\ m[p]._ftemp # DOUBLE_UNDEFINED /\ m[p]._fdew # DOUBLE_UNDEFINED

\* the tenths of a degree the code reads from a group s a b c: abc negated
\* when s is 1, and the four digits as one number otherwise
TenthsRead(g) == IF g[1] = "1" THEN 0 - Val(Tail(g)) ELSE Val(g)

\* C19 as amended: the decode of a report that is one token T s1abc s2def
\* sets temperaturePrecise to abc/10 negated when s1 = 1 and to the
\* four-digit value s1abc/10 otherwise (abc/10 when s1 = 0), dewPointPrecise
\* likewise from s2def, both together.
C19_PreciseTemperatureAsRead ==
  \A p \in Procs :
    LET s == input[p] IN
    /\ pc[p] = "done"
    /\ Len(s) = 9 /\ s[1] = "T" /\ AllDigits(Tail(s))
    => /\ m[p]._ftemp = Rat(TenthsRead(SubSeq(s, 2, 5)), 10)
       /\ m[p]._fdew = Rat(TenthsRead(SubSeq(s, 6, 9)), 10)
       /\ m[p]._ftemp # DOUBLE_UNDEFINED /\ m[p]._fdew # DOUBLE_UNDEFINED

\* C19 witness: T10170083 decoded to -1.7 and 8.3
C19_Witness ==
  /\ pc[1] = "done" /\ input[1] = <<"T","1","0","1","7","0","0","8","3">>
  /\ m[1]._ftemp = Rat(0 - 17, 10) /\ m[1]._fdew = Rat(83, 10)

\* the phenomenon a bare code stands for
BareKind(c) ==
  CASE c = <<"B","R">> -> "MIST"
    [] c = <<"D","S">> -> "DUST_STORM"
    [] c = <<"D","U">> -> "DUST"
    [] c = <<"D","Z">> -> "DRIZZLE"
    [] c = <<"F","C">> -> "FUNNEL_CLOUD"
    [] c = <<"F","G">> -> "FOG"
    [] c = <<"F","U">> -> "SMOKE"
    [] c = <<"G","R">> -> "HAIL"
    [] c = <<"G","S">> -> "SMALL_HAIL"
    [] c = <<"H","Z">> -> "HAZE"
    [] c = <<"I","C">> -> "ICE_CRYSTALS"
    [] c \in { <<"P","E">>, <<"P","L">> } -> "ICE_PELLETS"
    [] c = <<"P","O">> -> "DUST_SAND_WHORLS"
    [] c = <<"P","Y">> -> "SPRAY"
    [] c = <<"R","A">> -> "RAIN"
    [] c = <<"S","A">> -> "SAND"
    [] c = <<"S","G">> -> "SNOW_GRAINS"
    [] c = <<"S","N">> -> "SNOW"
    [] c = <<"S","Q">> -> "SQUALLS"
    [] c = <<"S","S">> -> "SAND_STORM"
    [] c = <<"T","S">> -> "THUNDER_STORM"
    [] c = <<"U","P">> -> "UNKNOWN_PRECIP"
    [] c = <<"V","A">> -> "VOLCANIC_ASH"

\* the bare codes of the vocabulary
BareCodes ==
  { <<"B","R">>, <<"D","S">>, <<"D","U">>, <<"D","Z">>, <<"F","C">>, <<"F","G">>, <<"F","U">>, <<"G","R">>, <<"G","S">>, <<"H","Z">>,
    <<"I","C">>, <<"P","E">>, <<"P","L">>, <<"P","O">>, <<"P","Y">>, <<"R","A">>, <<"S","A">>, <<"S","G">>, <<"S","N">>, <<"S","Q">>,
    <<"S","S">>, <<"T","S">>, <<"U","P">>, <<"V","A">> }

\* no qualifier of Phenom object ph is set
NoQualifier(ph) ==
  /\ ~ph.blowing /\ ~ph.freezing /\ ~ph.drifting /\ ~ph.vicinity
  /\ ~ph.shower /\ ~ph.partial /\ ~ph.shallow /\ ~ph.patches
  /\ ~ph.thunderstorm

\* C20: a token that is a bare code of the vocabulary decodes to exactly one
\* occurrence, whose kind is a phenomenon of the enumeration and the one the
\* code stands for, with intensity NORMAL and every qualifier false.
C20_BarePhenomenon ==
  \A p \in Procs :
    pc[p] = "created" /\ input[p] \in BareCodes =>
      /\ Len(phen[p].phenoms) = 1
      /\ phen[p].phenoms[1] = BareKind(input[p])
      /\ phen[p].phenoms[1] \in phenom
      /\ phen[p].intensity = "NORMAL"
      /\ NoQualifier(phen[p])

\* the intensity signs
Signs == { <<"+">>, <<"-">> }

\* token t carries no intensity sign
Unsigned(t) == t = << >> \/ Head(t) \notin { "+", "-" }

\* Phenom objects a and b agree on the kinds and on every qualifier
SameKindAndQualifiers(a, b) ==
  /\ a.phenoms = b.phenoms
  /\ a.blowing = b.blowing /\ a.freezing = b.freezing
  /\ a.drifting = b.drifting /\ a.vicinity = b.vicinity
  /\ a.shower = b.shower /\ a.partial = b.partial
  /\ a.shallow = b.shallow /\ a.patches = b.patches
  /\ a.thunderstorm = b.thunderstorm

\* C21: the intensity of a decoded token depends on its leading character
\* alone, HEAVY for +, LIGHT for -, NORMAL otherwise, and a token with a sign
\* decodes to the kinds and qualifiers of the same token without the sign.
C21_IntensityFromSign ==
  \A p \in Procs, q \in Procs :
    pc[p] = "created" /\ pc[q] = "created" /\ Unsigned(input[q]) =>
      /\ phen[q].intensity = "NORMAL"
      /\ input[p] = <<"+">> \o input[q] =>
           phen[p].intensity = "HEAVY" /\ SameKindAndQualifiers(phen[p], phen[q])
      /\ input[p] = <<"-">> \o input[q] =>
           phen[p].intensity = "LIGHT" /\ SameKindAndQualifiers(phen[p], phen[q])

\* +VCBLSN and VCBLSN are both decoded: heavy snow, blowing, in the vicinity
C21_Witness ==
  /\ pc[1] = "created" /\ pc[2] = "created"
  /\ input[1] = <<"+","V","C","B","L","S","N">> /\ input[2] = <<"V","C","B","L","S","N">>
  /\ phen[1].intensity = "HEAVY" /\ phen[2].intensity = "NORMAL"
  /\ phen[1].phenoms = << "SNOW" >> /\ phen[1].blowing /\ phen[1].vicinity

\* the qualifier codes
QualifierCodes ==
  { <<"V","C">>, <<"B","L">>, <<"D","R">>, <<"F","Z">>, <<"S","H">>, <<"P","R">>, <<"M","I">>, <<"B","C">> }

\* the flag a qualifier code stands for
FlagOf(c) ==
  CASE c = <<"V","C">> -> "vicinity"
    [] c = <<"B","L">> -> "blowing"
    [] c = <<"D","R">> -> "drifting"
    [] c = <<"F","Z">> -> "freezing"
    [] c = <<"S","H">> -> "shower"
    [] c = <<"P","R">> -> "partial"
    [] c = <<"M","I">> -> "shallow"
    [] c = <<"B","C">> -> "patches"

\* the qualifier flags of a decoded phenomenon
Flags ==
  { "blowing", "freezing", "drifting", "vicinity", "shower", "partial",
    "shallow", "patches", "thunderstorm" }

\* the qualifier flags that are true in Phenom object ph
TrueFlags(ph) == { f \in Flags : ph[f] }

\* Phenom object ph is one occurrence of kind k whose true flags are fs, each
\* of them a flag class Phenom lets a caller read
Qualified(ph, k, fs) ==
  /\ ph.phenoms = << k >>
  /\ TrueFlags(ph) = fs
  /\ fs \subseteq Accessors

\* C22: every qualifier code in front of the core code sets its own flag and
\* no other, the core code gives the kind, several qualifiers set all their
\* flags, and VCSH is one SHOWER with shower and vicinity set.
C22_Qualifiers ==
  \A p \in Procs :
    pc[p] = "created" =>
      /\ \A q1 \in QualifierCodes, c \in BareCodes :
           input[p] = q1 \o c =>
             Qualified(phen[p], BareKind(c), { FlagOf(q1) })
      /\ \A q1 \in QualifierCodes, q2 \in QualifierCodes, c \in BareCodes :
           input[p] = q1 \o q2 \o c =>
             Qualified(phen[p], BareKind(c), { FlagOf(q1), FlagOf(q2) })
      /\ input[p] = <<"V","C","S","H">> =>
           Qualified(phen[p], "SHOWER", { "shower", "vicinity" })

\* the same, the flag of SH aside, which class Phenom has no accessor for
C22_QualifiersButShower ==
  \A p \in Procs :
    pc[p] = "created" =>
      /\ \A q1 \in QualifierCodes \ { <<"S","H">> }, c \in BareCodes :
           input[p] = q1 \o c =>
             Qualified(phen[p], BareKind(c), { FlagOf(q1) })
      /\ \A q1 \in QualifierCodes \ { <<"S","H">> },
            q2 \in QualifierCodes \ { <<"S","H">> }, c \in BareCodes :
           input[p] = q1 \o q2 \o c =>
             Qualified(phen[p], BareKind(c), { FlagOf(q1), FlagOf(q2) })

\* Phenom object ph is the single occurrence rain with a thunderstorm
ThunderstormRain(ph) ==
  /\ Len(ph.phenoms) = 1
  /\ ph.phenoms[1] = "RAIN"
  /\ ph.phenoms[1] \in phenom
  /\ ph.thunderstorm

\* C23: a combination code decodes to one occurrence, RASN to one of kind
\* SLEET, a kind of the enumeration, and TSRA, with an intensity sign or
\* without, to one of kind RAIN with the thunderstorm flag set.
C23_CombinationCodes ==
  \A p \in Procs :
    pc[p] = "created" =>
      /\ input[p] = <<"R","A","S","N">> =>
           /\ Len(phen[p].phenoms) = 1
           /\ phen[p].phenoms[1] = "SLEET"
           /\ phen[p].phenoms[1] \in phenom
      /\ input[p] \in { <<"T","S","R","A">>, <<"-","T","S","R","A">>, <<"+","T","S","R","A">> } =>
           ThunderstormRain(phen[p])

\* the part of C23 on TSRA alone
C23_ThunderstormRain ==
  \A p \in Procs :
    pc[p] = "created" /\ input[p] \in { <<"T","S","R","A">>, <<"-","T","S","R","A">>, <<"+","T","S","R","A">> } =>
      ThunderstormRain(phen[p])

\* the tokens the if / else-if chain handed to the phenomena decoder, in the
\* order it did: the chain names its thirteen sub-parsers and no other
Phenomena(p) ==
  LET ToPhenom(e) == e.br \notin Groups \cup { "cloud_layer", "none" }
      es == SelectSeq(log[p], ToPhenom)
  IN [i \in 1..Len(es) |-> es[i].tok]

\* present-weather tokens that no other predicate takes
WxTokens == { <<"-","R","A">>, <<"B","R">> }

\* no token before position j of toks is RMK
BeforeRemarks(toks, j) == \A k \in 1..j : toks[k] # <<"R","M","K">>

\* C24: the phenomena of a report are in report order: of two phenomenon
\* tokens of one report the earlier has its occurrence at the smaller index,
\* whatever tokens of other kinds stand between them.
C24_PhenomenaInReportOrder ==
  \A p \in Procs :
    pc[p] = "done" =>
      LET toks == Tokens(input[p]) IN
      \A i \in 1..Len(toks), j \in 1..Len(toks) :
        i < j /\ toks[i] \in WxTokens /\ toks[j] \in WxTokens
          /\ BeforeRemarks(toks, j) =>
            \E a \in 1..Len(Phenomena(p)), b \in 1..Len(Phenomena(p)) :
              a < b /\ Phenomena(p)[a] = toks[i] /\ Phenomena(p)[b] = toks[j]

\* some token of toks before position j is RMK
InRemarks(toks, j) == \E k \in 1..(j - 1) : toks[k] = <<"R","M","K">>

\* toks[j] is the first token of toks with property P
FirstWith(toks, j, P(_)) == P(toks[j]) /\ \A k \in 1..(j - 1) : ~P(toks[k])

\* C25: a token behind RMK adds no phenomenon, a vocabulary code such as TS
\* included, while the sea-level pressure and the precise temperature behind
\* RMK are decoded into their fields.
C25_RemarksDecoded ==
  \A p \in Procs :
    LET toks == Examined(p) IN
    \A j \in 1..Len(toks) :
      InRemarks(toks, j) =>
        /\ log[p][j].br \in Groups \cup { "cloud_layer", "none" }
        /\ toks[j] = <<"S","L","P","2","6","0">> /\ FirstWith(toks, j, is_slp) =>
             hasSeaLevelPressure(m[p]) /\ m[p]._slp = Rat(10260, 10)
        /\ toks[j] = <<"T","0","0","9","4","0","0","6","1">> /\ FirstWith(toks, j, is_tempNA) =>
             /\ hasTemperatureNA(m[p]) /\ hasDewPointNA(m[p])
             /\ m[p]._ftemp = Rat(94, 10) /\ m[p]._fdew = Rat(61, 10)

\* RMK TS SLP260 is decoded: no phenomenon, sea-level pressure 1026.0
C25_Witness ==
  /\ pc[1] = "done"
  /\ input[1] = <<"R","M","K"," ","T","S"," ","S","L","P","2","6","0">>
  /\ Phenomena(1) = << >>
  /\ m[1]._slp = Rat(10260, 10)

\* the report of test real_METAR_1
RealMetar1 ==
  <<"K","S","T","L"," ","2","3","1","7","5","1","Z"," ","2","7","0","0","9","K","T"," ","1","0","S","M"," ","O","V","C","0","1","5"," ","0","9","/","0","6"," ","A","3","0","2","9"," ","R","M","K"," ","A","O","2"," ","S","L","P","2","6","0"," ","T","0","0","9","4","0","0","6","1"," ","1","0","1","0","0"," ","2","0","0","7","8"," ","5","3","0","0","2">>

\* the decoded report the specification gives for RealMetar1
RealMetar1Decoded(mm) ==
  /\ ~hasMETAR(mm)
  /\ mm._icao = <<"K","S","T","L">>
  /\ mm._day = 23 /\ mm._hour = 17 /\ mm._min = 51
  /\ mm._wind_dir = 270 /\ mm._wind_spd = 9
  /\ mm._wind_speed_units = WIND_SPEED_KT
  /\ ~hasWindGust(mm)
  /\ ~hasMinWindDirection(mm) /\ ~hasMaxWindDirection(mm)
  /\ mm._vis = Rat(10, 1) /\ mm._vis_units = VIS_UNITS_SM
  /\ mm._num_layers = 1
  /\ mm._layers = << SkyConditionImpl(<<"O","V","C">>, 1500, NULLSTR) >>
  /\ ~hasVerticalVisibility(mm)
  /\ mm._temp = 9 /\ mm._dew = 6
  /\ mm._altimeterA = Rat(3029, 100) /\ ~hasAltimeterQ(mm)
  /\ mm._slp = Rat(10260, 10)
  /\ mm._ftemp = Rat(94, 10) /\ mm._fdew = Rat(61, 10)

\* C26: the decode of the report of real_METAR_1 returns, with the decoded
\* report the specification gives, the trailing five-digit groups changing
\* nothing.
C26_EndToEnd ==
  \A p \in Procs :
    input[p] = RealMetar1 =>
      /\ pc[p] # "crashed"
      /\ pc[p] = "done" => RealMetar1Decoded(m[p])
      /\ Len(log[p]) >= 11 => RealMetar1Decoded(m[p])

\* the decodes of RealMetar1 that return give the report of C26
C26_EndToEndIfReturned ==
  \A p \in Procs :
    input[p] = RealMetar1 =>
      /\ pc[p] = "done" => RealMetar1Decoded(m[p])
      /\ Len(log[p]) >= 11 => RealMetar1Decoded(m[p])

\* the decode of RealMetar1 has returned
C26_Returned == pc[1] = "done" /\ input[1] = RealMetar1

\* cloud-layer reports whose token has letters where the altitude stands,
\* and reports of two layers
OddLayerInputs ==
  { <<"O","V","C","A","B","C">>, <<"S","K","C","X">>, <<"C","L","R","0","1","5"," ","O","V","C">>, <<"F","E","W"," ","B","K","N","0","3","0">>, <<"N","S","C"," ","S","K","C","0","2","0">> }

\* the token the k-th cloud layer of caller p was decoded from
LayerToken(p, k) ==
  LET IsLayer(e) == e.br = "cloud_layer" IN SelectSeq(log[p], IsLayer)[k].tok

\* token str is a cover code followed by a numeric suffix
HasNumericSuffix(str) ==
  Len(str) > 3 /\ \A i \in 4..Len(str) : str[i] \in Digits

\* C27: a decoded cloud layer has an altitude only when its cover is FEW,
\* SCT, BKN or OVC and its token carries a numeric suffix; a layer of cover
\* SKC, CLR or NSC never has one.
C27_AltitudeOnlyForCloudCovers ==
  \A p \in Procs :
    \A k \in 1..Len(m[p]._layers) :
      LET l == m[p]._layers[k] IN
      /\ SkyHasAltitude(l) =>
           /\ l._cond \in { <<"F","E","W">>, <<"S","C","T">>, <<"B","K","N">>, <<"O","V","C">> }
           /\ HasNumericSuffix(LayerToken(p, k))
      /\ l._cond \in { <<"S","K","C">>, <<"C","L","R">>, <<"N","S","C">> } => ~SkyHasAltitude(l)

\* C27 as the code has it: a decoded cloud layer has an altitude exactly
\* when its token carries characters behind the three-letter cover code,
\* whichever the cover; a layer of a cover code alone never has one.
C27_AltitudeIffSuffix ==
  \A p \in Procs :
    /\ Len(m[p]._layers) = RanCount(p, "cloud_layer")
    /\ \A k \in 1..Len(m[p]._layers) :
         LET l == m[p]._layers[k] IN
         /\ l._cond = SubSeq(LayerToken(p, k), 1, 3)
         /\ SkyHasAltitude(l) <=> Len(LayerToken(p, k)) > 3

\* CLR015 OVC is decoded: a clear layer with the altitude 1500 ft, then an
\* overcast layer without an altitude
C27_Witness ==
  /\ pc[1] = "done" /\ input[1] = <<"C","L","R","0","1","5"," ","O","V","C">>
  /\ m[1]._layers[1]._cond = <<"C","L","R">> /\ m[1]._layers[1]._alt = 1500
  /\ m[1]._layers[2]._cond = <<"O","V","C">> /\ ~SkyHasAltitude(m[1]._layers[2])

\* the fields of group g are populated in Metar object mm: they are no longer
\* as the constructor left them (for cloud layers: all 3 are taken)
Populated(mm, g) ==
  IF g = "cloud_layer" THEN mm._num_layers = MAX_CLOUD_LAYERS
  ELSE GroupVals(mm, g) # GroupVals(MetarCtor, g)

\* token str matches no predicate, or only predicates whose fields are
\* populated in mm
Unmatched(mm, str) ==
  \A g \in Groups \cup { "cloud_layer" } : Shape(g, str) => Populated(mm, g)

\* C28: the step that examines a token matching no predicate, or only
\* predicates whose fields are populated, leaves every field of the report
\* as it was, the layers and their count included, and makes the token the
\* previous token of the lookback.
C28_UnmatchedTokenFrame ==
  [][ \A p \in Procs :
        log'[p] # log[p] =>
          LET tok == log'[p][Len(log'[p])].tok IN
          Unmatched(m[p], tok) =>
            /\ Report(m'[p]) = Report(m[p])
            /\ PrevStr(mem', m'[p]) = tok ]_vars

\* C28 witness: EGLL behind KSTL changed nothing and is the previous token
C28_Witness ==
  /\ input[1] = <<"K","S","T","L"," ","E","G","L","L">>
  /\ Len(log[1]) = 2
  /\ log[1][2].br = "none"
  /\ m[1]._icao = <<"K","S","T","L">>
  /\ PrevStr(mem, m[1]) = <<"E","G","L","L">>

\* token str is exactly four letters
FourLetters(str) == Len(str) = 4 /\ \A i \in 1..4 : str[i] \in Alphas

\* C29: the first token of exactly four letters a decode examines is taken
\* as the ICAO code, whether or not it reads as a phenomenon group, and adds
\* no phenomenon; a token of four letters is handed to the phenomena decoder
\* only when an earlier token has populated the ICAO code.
C29_IcaoBeforePhenomenon ==
  \A p \in Procs :
    LET toks == Examined(p) IN
    \A j \in 1..Len(toks) :
      /\ FirstWith(toks, j, FourLetters) =>
           /\ log[p][j].br = "icao"
           /\ m[p]._icao = toks[j]
      /\ FourLetters(toks[j])
           /\ log[p][j].br \notin Groups \cup { "cloud_layer", "none" } =>
             \E k \in 1..(j - 1) : log[p][k].br = "icao"

\* C29 witness: RASN, the first token of four letters, is the ICAO code of
\* the decoded report and no phenomenon; KSTL behind it is ignored
C29_Witness ==
  /\ pc[1] = "done" /\ input[1] = <<"R","A","S","N"," ","K","S","T","L">>
  /\ m[1]._icao = <<"R","A","S","N">>
  /\ Phenomena(1) = << >>
  /\ log[1][2].br = "none"

\* the whitespace characters of the model's alphabet
Whitespace == { SP, TAB }

RECURSIVE TokensOn(_, _)
\* the maximal runs of characters of s that are not in seps, in order
TokensOn(s, seps) ==
  IF s = << >> THEN << >>
  ELSE IF Head(s) \in seps THEN TokensOn(Tail(s), seps)
  ELSE LET n == IF \E k \in 1..Len(s) : s[k] \in seps
                  THEN (CHOOSE k \in 1..Len(s) :
                          s[k] \in seps /\ \A j \in 1..(k - 1) : s[j] \notin seps)
                       - 1
                  ELSE Len(s)
       IN <<SubSeq(s, 1, n)>> \o TokensOn(Drop(s, n), seps)

\* sequence a is a prefix of sequence b
IsPrefix(a, b) == Len(a) <= Len(b) /\ a = SubSeq(b, 1, Len(a))

TokInputs ==
  OTTokens \cup TempTokens \cup WindTokens \cup LookbackInputs \cup VisTokens
    \cup LayerTokens \cup AltInputs \cup SLPTokens \cup TNATokens
    \cup OddLayerInputs

\* two callers that decode the same single-group report, one after the other
InitTok ==
  /\ \E in \in TokInputs :
       /\ mem = [b \in BufIds |-> IF b = "arg1" THEN in \o <<NUL>> ELSE << >>]
       /\ input = [p \in Procs |-> in]
  /\ arg = [p \in Procs |-> "arg1"]
  /\ InitCommon

SpecTok == InitTok /\ [][Next]_vars

\* ------------------------------- the decode of reports with present weather
\* two callers that decode the same report, one after the other
InitWx ==
  /\ \E in \in WxInputs :
       /\ mem = [b \in BufIds |-> IF b = "arg1" THEN in \o <<NUL>> ELSE << >>]
       /\ input = [p \in Procs |-> in]
  /\ arg = [p \in Procs |-> "arg1"]
  /\ InitCommon

SpecWx == InitWx /\ [][Next]_vars

\* --------------------------------------- the decode of one phenomenon token
\* the two-letter codes and two that are none
PhenomCodes ==
  { <<"B","R">>, <<"D","S">>, <<"D","U">>, <<"D","Z">>, <<"F","C">>, <<"F","G">>, <<"F","U">>, <<"G","R">>, <<"G","S">>, <<"H","Z">>,
    <<"I","C">>, <<"P","E">>, <<"P","L">>, <<"P","O">>, <<"P","Y">>, <<"R","A">>, <<"S","A">>, <<"S","G">>, <<"S","H">>, <<"S","N">>,
    <<"S","Q">>, <<"S","S">>, <<"T","S">>, <<"U","P">>, <<"V","A">>, <<"X","X">>, <<"Z","Z">> }

\* groups of qualifiers and codes
PhenomGroups ==
  { <<"V","C","F","G">>, <<"B","L","S","N">>, <<"D","R","S","A">>, <<"F","Z","D","Z">>, <<"S","H","R","A">>, <<"V","C","S","H">>, <<"P","R","F","G">>, <<"M","I","F","G">>,
    <<"B","C","F","G">>, <<"V","C","B","L","S","N">>, <<"T","S","R","A">>, <<"R","A","S","N">> }

\* phenomenon tokens: a code or a group, bare or with an intensity sign
PhenomTokens ==
  Cat({ << >>, <<"+">>, <<"-">> }, PhenomCodes \cup PhenomGroups)
    \cup Cat(QualifierCodes, { <<"F","G">>, <<"S","N">>, <<"S","A">>, <<"D","Z">>, <<"R","A">> })

\* two callers, each about to decode a phenomenon token of its own
InitPhenom ==
  /\ \E in1 \in PhenomTokens, in2 \in PhenomTokens :
       /\ mem = [b \in BufIds |->
                   IF b = "arg1" THEN in1 \o <<NUL>>
                   ELSE IF b = "arg2" THEN in2 \o <<NUL>> ELSE << >>]
       /\ input = [p \in Procs |-> IF p = 1 THEN in1 ELSE in2]
  /\ arg = [p \in Procs |-> IF p = 1 THEN "arg1" ELSE "arg2"]
  /\ InitCommon

\* caller p calls Phenom::Create on its token
PhenomCreate(p) ==
  /\ pc[p] = "idle"
  /\ phen' = [phen EXCEPT ![p] = Create(CStr(mem, [b |-> arg[p], off |-> 1]),
                                        FALSE)]
  /\ pc' = [pc EXCEPT ![p] = "created"]
  /\ UNCHANGED <<mem, save, arg, work, el, m, input, log>>

NextPhenom == \E p \in Procs : PhenomCreate(p)

SpecPhenom == InitPhenom /\ [][NextPhenom]_vars

=============================================================================
